---------------------------- MODULE Spec2Model ----------------------------
(***************************************************************************)
(* State-machine model of the YMF262 (OPL3) FM sound generator of openMSX  *)
(* (src/src/sound/YMF262.cc): the register decoder, the key on/off logic,  *)
(* the envelope and phase generators, the LFOs, the noise generator, the   *)
(* status/IRQ logic, reset, and per-sample generation.                     *)
(*                                                                         *)
(* The chip is modelled as one record per C++ object (slot, channel) and   *)
(* one variable per member of YMF262Impl.  Every method is a pure operator *)
(* from the chip record to the chip record; the actions install the       *)
(* result in the variables.                                                *)
(***************************************************************************)
EXTENDS Integers, Naturals, Sequences, FiniteSets, TLC

-----------------------------------------------------------------------------
(* Machine arithmetic on the bit patterns used by the code.                *)

\* 2^n
RECURSIVE Pow2(_)
Pow2(n) == IF n = 0 THEN 1 ELSE 2 * Pow2(n - 1)

\* x >> n of a 32-bit int (the arithmetic shift on a negative value)
Shr(x, n) == IF n >= 31 THEN (IF x < 0 THEN -1 ELSE 0) ELSE x \div Pow2(n)

\* a & b on non-negative values
RECURSIVE BitAnd(_, _)
BitAnd(a, b) ==
  IF a = 0 \/ b = 0 THEN 0
  ELSE (a % 2) * (b % 2) + 2 * BitAnd(a \div 2, b \div 2)

\* a | b on non-negative values
RECURSIVE BitOr(_, _)
BitOr(a, b) ==
  IF a = 0 THEN b
  ELSE IF b = 0 THEN a
  ELSE (IF a % 2 = 1 \/ b % 2 = 1 THEN 1 ELSE 0) + 2 * BitOr(a \div 2, b \div 2)

\* a ^ b on non-negative values
RECURSIVE BitXor(_, _)
BitXor(a, b) ==
  IF a = 0 THEN b
  ELSE IF b = 0 THEN a
  ELSE ((a + b) % 2) + 2 * BitXor(a \div 2, b \div 2)

\* ~a of a byte
ByteNot(a) == 255 - a

\* bit n of x, as 0 or 1
Bit(x, n) == (x \div Pow2(n)) % 2

\* INT_MAX of the 32-bit int
INT_MAX == 2147483647

\* a + b in a 32-bit int on a two's complement machine, for b >= 0
WrapAdd(a, b) ==
  IF a > INT_MAX - b
  THEN ((a - INT_MAX) - 1) + ((b - INT_MAX) - 1)
  ELSE a + b

-----------------------------------------------------------------------------
(* Constants of the chip.                                                  *)

ENV_BITS == 10
MAX_ATT_INDEX == 511
MIN_ATT_INDEX == 0
SIN_BITS == 10
SIN_LEN == 1024
SIN_MASK == 1023
TL_RES_LEN == 256
TL_TAB_LEN == 6656
ENV_QUIET == 416
RATE_STEPS == 8
LFO_AM_TAB_ELEMENTS == 210
SLOT1 == 0
SLOT2 == 1

\* number of fraction bits of FreqIndex, LFOAMIndex and LFOPMIndex
FREQ_FRACTION_BITS == 16
LFOAM_FRACTION_BITS == 6
LFOPM_FRACTION_BITS == 10

\* enum EnvelopeState
EG_ATTACK == "EG_ATTACK"
EG_DECAY == "EG_DECAY"
EG_SUSTAIN == "EG_SUSTAIN"
EG_RELEASE == "EG_RELEASE"
EG_OFF == "EG_OFF"
EnvelopeState == {EG_ATTACK, EG_DECAY, EG_SUSTAIN, EG_RELEASE, EG_OFF}

\* Bitmasks for register 0x04 and for the status register
R04_ST1 == 1
R04_ST2 == 2
R04_MASK_T2 == 32
R04_MASK_T1 == 64
R04_IRQ_RESET == 128
STATUS_T2 == 32
STATUS_T1 == 64

\* The targets a slot's output pointer (int* connect) can hold: &chanout[i] is
\* the channel number i, the two static modulation inputs and the null pointer
\* of the constructor are the values below.
ConnectNull == -1
ConnectPM == 18
ConnectPM2 == 19
ConnectChanout(i) == i

\* (unsigned)~0 of the pan masks, as the int with the same bit pattern
PAN_ON == -1

-----------------------------------------------------------------------------
(* Lookup tables (0-based in the code, 1-based tuples here).               *)

slot_array_data ==
  <<
    0, 2, 4, 1, 3, 5, -1, -1,
    6, 8, 10, 7, 9, 11, -1, -1,
    12, 14, 16, 13, 15, 17, -1, -1,
    -1, -1, -1, -1, -1, -1, -1, -1
  >>

ksl_tab_data ==
  <<
    0, 0, 0, 0, 0, 0, 0, 0, 0, 0, 0, 0, 0, 0, 0, 0,
    0, 0, 0, 0, 0, 0, 0, 0, 0, 8, 12, 16, 20, 24, 28, 32,
    0, 0, 0, 0, 0, 12, 20, 28, 32, 40, 44, 48, 52, 56, 60, 64,
    0, 0, 0, 20, 32, 44, 52, 60, 64, 72, 76, 80, 84, 88, 92, 96,
    0, 0, 32, 52, 64, 76, 84, 92, 96, 104, 108, 112, 116, 120, 124, 128,
    0, 32, 64, 84, 96, 108, 116, 124, 128, 136, 140, 144, 148, 152, 156, 160,
    0, 64, 96, 116, 128, 140, 148, 156, 160, 168, 172, 176, 180, 184, 188, 192,
    0, 96, 128, 148, 160, 172, 180, 188, 192, 200, 204, 208, 212, 216, 220, 224
  >>

sl_tab_data ==
  <<
    0, 16, 32, 48, 64, 80, 96, 112,
    128, 144, 160, 176, 192, 208, 224, 496
  >>

eg_inc_data ==
  <<
    0, 1, 0, 1, 0, 1, 0, 1,
    0, 1, 0, 1, 1, 1, 0, 1,
    0, 1, 1, 1, 0, 1, 1, 1,
    0, 1, 1, 1, 1, 1, 1, 1,
    1, 1, 1, 1, 1, 1, 1, 1,
    1, 1, 1, 2, 1, 1, 1, 2,
    1, 2, 1, 2, 1, 2, 1, 2,
    1, 2, 2, 2, 1, 2, 2, 2,
    2, 2, 2, 2, 2, 2, 2, 2,
    2, 2, 2, 4, 2, 2, 2, 4,
    2, 4, 2, 4, 2, 4, 2, 4,
    2, 4, 4, 4, 2, 4, 4, 4,
    4, 4, 4, 4, 4, 4, 4, 4,
    8, 8, 8, 8, 8, 8, 8, 8,
    0, 0, 0, 0, 0, 0, 0, 0
  >>

eg_rate_select_data ==
  <<
    112, 112, 112, 112, 112, 112, 112, 112,
    112, 112, 112, 112, 112, 112, 112, 112,
    0, 8, 16, 24, 0, 8, 16, 24,
    0, 8, 16, 24, 0, 8, 16, 24,
    0, 8, 16, 24, 0, 8, 16, 24,
    0, 8, 16, 24, 0, 8, 16, 24,
    0, 8, 16, 24, 0, 8, 16, 24,
    0, 8, 16, 24, 0, 8, 16, 24,
    0, 8, 16, 24, 32, 40, 48, 56,
    64, 72, 80, 88, 96, 96, 96, 96,
    96, 96, 96, 96, 96, 96, 96, 96,
    96, 96, 96, 96, 96, 96, 96, 96
  >>

eg_rate_shift_data ==
  <<
    0, 0, 0, 0, 0, 0, 0, 0,
    0, 0, 0, 0, 0, 0, 0, 0,
    12, 12, 12, 12, 11, 11, 11, 11,
    10, 10, 10, 10, 9, 9, 9, 9,
    8, 8, 8, 8, 7, 7, 7, 7,
    6, 6, 6, 6, 5, 5, 5, 5,
    4, 4, 4, 4, 3, 3, 3, 3,
    2, 2, 2, 2, 1, 1, 1, 1,
    0, 0, 0, 0, 0, 0, 0, 0,
    0, 0, 0, 0, 0, 0, 0, 0,
    0, 0, 0, 0, 0, 0, 0, 0,
    0, 0, 0, 0, 0, 0, 0, 0
  >>

mul_tab_data ==
  <<
    1, 2, 4, 6, 8, 10, 12, 14,
    16, 18, 20, 20, 24, 24, 30, 30
  >>

lfo_am_table_data ==
  <<
    0, 0, 0, 0, 0, 0, 0, 1, 1, 1, 1, 2, 2, 2,
    2, 3, 3, 3, 3, 4, 4, 4, 4, 5, 5, 5, 5, 6,
    6, 6, 6, 7, 7, 7, 7, 8, 8, 8, 8, 9, 9, 9,
    9, 10, 10, 10, 10, 11, 11, 11, 11, 12, 12, 12, 12, 13,
    13, 13, 13, 14, 14, 14, 14, 15, 15, 15, 15, 16, 16, 16,
    16, 17, 17, 17, 17, 18, 18, 18, 18, 19, 19, 19, 19, 20,
    20, 20, 20, 21, 21, 21, 21, 22, 22, 22, 22, 23, 23, 23,
    23, 24, 24, 24, 24, 25, 25, 25, 25, 26, 26, 26, 25, 25,
    25, 25, 24, 24, 24, 24, 23, 23, 23, 23, 22, 22, 22, 22,
    21, 21, 21, 21, 20, 20, 20, 20, 19, 19, 19, 19, 18, 18,
    18, 18, 17, 17, 17, 17, 16, 16, 16, 16, 15, 15, 15, 15,
    14, 14, 14, 14, 13, 13, 13, 13, 12, 12, 12, 12, 11, 11,
    11, 11, 10, 10, 10, 10, 9, 9, 9, 9, 8, 8, 8, 8,
    7, 7, 7, 7, 6, 6, 6, 6, 5, 5, 5, 5, 4, 4,
    4, 4, 3, 3, 3, 3, 2, 2, 2, 2, 1, 1, 1, 1
  >>

lfo_pm_table_data ==
  <<
    0, 0, 0, 0, 0, 0, 0, 0,
    0, 0, 0, 0, 0, 0, 0, 0,
    0, 0, 0, 0, 0, 0, 0, 0,
    1, 0, 0, 0, -1, 0, 0, 0,
    1, 0, 0, 0, -1, 0, 0, 0,
    2, 1, 0, -1, -2, -1, 0, 1,
    1, 0, 0, 0, -1, 0, 0, 0,
    3, 1, 0, -1, -3, -1, 0, 1,
    2, 1, 0, -1, -2, -1, 0, 1,
    4, 2, 0, -2, -4, -2, 0, 2,
    2, 1, 0, -1, -2, -1, 0, 1,
    5, 2, 0, -2, -5, -2, 0, 2,
    3, 1, 0, -1, -3, -1, 0, 1,
    6, 3, 0, -3, -6, -3, 0, 3,
    3, 1, 0, -1, -3, -1, 0, 1,
    7, 3, 0, -3, -7, -3, 0, 3
  >>

tl_tab_data ==
  <<
    4084, 4074, 4062, 4052, 4040, 4030, 4020, 4008, 3998, 3986, 3976, 3966, 3954, 3944, 3932, 3922,
    3912, 3902, 3890, 3880, 3870, 3860, 3848, 3838, 3828, 3818, 3808, 3796, 3786, 3776, 3766, 3756,
    3746, 3736, 3726, 3716, 3706, 3696, 3686, 3676, 3666, 3656, 3646, 3636, 3626, 3616, 3606, 3596,
    3588, 3578, 3568, 3558, 3548, 3538, 3530, 3520, 3510, 3500, 3492, 3482, 3472, 3464, 3454, 3444,
    3434, 3426, 3416, 3408, 3398, 3388, 3380, 3370, 3362, 3352, 3344, 3334, 3326, 3316, 3308, 3298,
    3290, 3280, 3272, 3262, 3254, 3246, 3236, 3228, 3218, 3210, 3202, 3192, 3184, 3176, 3168, 3158,
    3150, 3142, 3132, 3124, 3116, 3108, 3100, 3090, 3082, 3074, 3066, 3058, 3050, 3040, 3032, 3024,
    3016, 3008, 3000, 2992, 2984, 2976, 2968, 2960, 2952, 2944, 2936, 2928, 2920, 2912, 2904, 2896,
    2888, 2880, 2872, 2866, 2858, 2850, 2842, 2834, 2826, 2818, 2812, 2804, 2796, 2788, 2782, 2774,
    2766, 2758, 2752, 2744, 2736, 2728, 2722, 2714, 2706, 2700, 2692, 2684, 2678, 2670, 2664, 2656,
    2648, 2642, 2634, 2628, 2620, 2614, 2606, 2600, 2592, 2584, 2578, 2572, 2564, 2558, 2550, 2544,
    2536, 2530, 2522, 2516, 2510, 2502, 2496, 2488, 2482, 2476, 2468, 2462, 2456, 2448, 2442, 2436,
    2428, 2422, 2416, 2410, 2402, 2396, 2390, 2384, 2376, 2370, 2364, 2358, 2352, 2344, 2338, 2332,
    2326, 2320, 2314, 2308, 2300, 2294, 2288, 2282, 2276, 2270, 2264, 2258, 2252, 2246, 2240, 2234,
    2228, 2222, 2216, 2210, 2204, 2198, 2192, 2186, 2180, 2174, 2168, 2162, 2156, 2150, 2144, 2138,
    2132, 2128, 2122, 2116, 2110, 2104, 2098, 2092, 2088, 2082, 2076, 2070, 2064, 2060, 2054, 2048
  >>

sin_tab_data ==
  <<
    4274, 3462, 3086, 2838, 2652, 2504, 2380, 2274, 2182, 2100, 2026, 1958, 1898, 1840, 1788, 1738,
    1692, 1650, 1608, 1570, 1534, 1498, 1464, 1434, 1402, 1374, 1344, 1318, 1292, 1266, 1242, 1218,
    1196, 1174, 1152, 1132, 1112, 1092, 1072, 1054, 1036, 1018, 1002, 984, 968, 952, 936, 922,
    906, 892, 878, 864, 850, 836, 822, 810, 798, 784, 772, 760, 750, 738, 726, 716,
    704, 694, 682, 672, 662, 652, 642, 632, 622, 614, 604, 594, 586, 578, 568, 560,
    552, 542, 534, 526, 518, 510, 502, 496, 488, 480, 472, 466, 458, 452, 444, 438,
    430, 424, 418, 410, 404, 398, 392, 386, 380, 374, 368, 362, 356, 350, 344, 338,
    334, 328, 322, 318, 312, 306, 302, 296, 292, 286, 282, 276, 272, 268, 262, 258,
    254, 250, 244, 240, 236, 232, 228, 224, 220, 216, 212, 208, 204, 200, 196, 192,
    188, 184, 182, 178, 174, 170, 166, 164, 160, 156, 154, 150, 148, 144, 140, 138,
    134, 132, 128, 126, 124, 120, 118, 114, 112, 110, 106, 104, 102, 98, 96, 94,
    92, 90, 86, 84, 82, 80, 78, 76, 74, 72, 70, 68, 66, 64, 62, 60,
    58, 56, 54, 52, 50, 48, 46, 46, 44, 42, 40, 40, 38, 36, 34, 34,
    32, 30, 30, 28, 26, 26, 24, 24, 22, 20, 20, 18, 18, 16, 16, 14,
    14, 14, 12, 12, 10, 10, 10, 8, 8, 8, 6, 6, 6, 4, 4, 4,
    4, 2, 2, 2, 2, 2, 2, 2, 0, 0, 0, 0, 0, 0, 0, 0,
    0, 0, 0, 0, 0, 0, 0, 0, 2, 2, 2, 2, 2, 2, 2, 4,
    4, 4, 4, 6, 6, 6, 8, 8, 8, 10, 10, 10, 12, 12, 14, 14,
    14, 16, 16, 18, 18, 20, 20, 22, 24, 24, 26, 26, 28, 30, 30, 32,
    34, 34, 36, 38, 40, 40, 42, 44, 46, 46, 48, 50, 52, 54, 56, 58,
    60, 62, 64, 66, 68, 70, 72, 74, 76, 78, 80, 82, 84, 86, 90, 92,
    94, 96, 98, 102, 104, 106, 110, 112, 114, 118, 120, 124, 126, 128, 132, 134,
    138, 140, 144, 148, 150, 154, 156, 160, 164, 166, 170, 174, 178, 182, 184, 188,
    192, 196, 200, 204, 208, 212, 216, 220, 224, 228, 232, 236, 240, 244, 250, 254,
    258, 262, 268, 272, 276, 282, 286, 292, 296, 302, 306, 312, 318, 322, 328, 334,
    338, 344, 350, 356, 362, 368, 374, 380, 386, 392, 398, 404, 410, 418, 424, 430,
    438, 444, 452, 458, 466, 472, 480, 488, 496, 502, 510, 518, 526, 534, 542, 552,
    560, 568, 578, 586, 594, 604, 614, 622, 632, 642, 652, 662, 672, 682, 694, 704,
    716, 726, 738, 750, 760, 772, 784, 798, 810, 822, 836, 850, 864, 878, 892, 906,
    922, 936, 952, 968, 984, 1002, 1018, 1036, 1054, 1072, 1092, 1112, 1132, 1152, 1174, 1196,
    1218, 1242, 1266, 1292, 1318, 1344, 1374, 1402, 1434, 1464, 1498, 1534, 1570, 1608, 1650, 1692,
    1738, 1788, 1840, 1898, 1958, 2026, 2100, 2182, 2274, 2380, 2504, 2652, 2838, 3086, 3462, 4274,
    4275, 3463, 3087, 2839, 2653, 2505, 2381, 2275, 2183, 2101, 2027, 1959, 1899, 1841, 1789, 1739,
    1693, 1651, 1609, 1571, 1535, 1499, 1465, 1435, 1403, 1375, 1345, 1319, 1293, 1267, 1243, 1219,
    1197, 1175, 1153, 1133, 1113, 1093, 1073, 1055, 1037, 1019, 1003, 985, 969, 953, 937, 923,
    907, 893, 879, 865, 851, 837, 823, 811, 799, 785, 773, 761, 751, 739, 727, 717,
    705, 695, 683, 673, 663, 653, 643, 633, 623, 615, 605, 595, 587, 579, 569, 561,
    553, 543, 535, 527, 519, 511, 503, 497, 489, 481, 473, 467, 459, 453, 445, 439,
    431, 425, 419, 411, 405, 399, 393, 387, 381, 375, 369, 363, 357, 351, 345, 339,
    335, 329, 323, 319, 313, 307, 303, 297, 293, 287, 283, 277, 273, 269, 263, 259,
    255, 251, 245, 241, 237, 233, 229, 225, 221, 217, 213, 209, 205, 201, 197, 193,
    189, 185, 183, 179, 175, 171, 167, 165, 161, 157, 155, 151, 149, 145, 141, 139,
    135, 133, 129, 127, 125, 121, 119, 115, 113, 111, 107, 105, 103, 99, 97, 95,
    93, 91, 87, 85, 83, 81, 79, 77, 75, 73, 71, 69, 67, 65, 63, 61,
    59, 57, 55, 53, 51, 49, 47, 47, 45, 43, 41, 41, 39, 37, 35, 35,
    33, 31, 31, 29, 27, 27, 25, 25, 23, 21, 21, 19, 19, 17, 17, 15,
    15, 15, 13, 13, 11, 11, 11, 9, 9, 9, 7, 7, 7, 5, 5, 5,
    5, 3, 3, 3, 3, 3, 3, 3, 1, 1, 1, 1, 1, 1, 1, 1,
    1, 1, 1, 1, 1, 1, 1, 1, 3, 3, 3, 3, 3, 3, 3, 5,
    5, 5, 5, 7, 7, 7, 9, 9, 9, 11, 11, 11, 13, 13, 15, 15,
    15, 17, 17, 19, 19, 21, 21, 23, 25, 25, 27, 27, 29, 31, 31, 33,
    35, 35, 37, 39, 41, 41, 43, 45, 47, 47, 49, 51, 53, 55, 57, 59,
    61, 63, 65, 67, 69, 71, 73, 75, 77, 79, 81, 83, 85, 87, 91, 93,
    95, 97, 99, 103, 105, 107, 111, 113, 115, 119, 121, 125, 127, 129, 133, 135,
    139, 141, 145, 149, 151, 155, 157, 161, 165, 167, 171, 175, 179, 183, 185, 189,
    193, 197, 201, 205, 209, 213, 217, 221, 225, 229, 233, 237, 241, 245, 251, 255,
    259, 263, 269, 273, 277, 283, 287, 293, 297, 303, 307, 313, 319, 323, 329, 335,
    339, 345, 351, 357, 363, 369, 375, 381, 387, 393, 399, 405, 411, 419, 425, 431,
    439, 445, 453, 459, 467, 473, 481, 489, 497, 503, 511, 519, 527, 535, 543, 553,
    561, 569, 579, 587, 595, 605, 615, 623, 633, 643, 653, 663, 673, 683, 695, 705,
    717, 727, 739, 751, 761, 773, 785, 799, 811, 823, 837, 851, 865, 879, 893, 907,
    923, 937, 953, 969, 985, 1003, 1019, 1037, 1055, 1073, 1093, 1113, 1133, 1153, 1175, 1197,
    1219, 1243, 1267, 1293, 1319, 1345, 1375, 1403, 1435, 1465, 1499, 1535, 1571, 1609, 1651, 1693,
    1739, 1789, 1841, 1899, 1959, 2027, 2101, 2183, 2275, 2381, 2505, 2653, 2839, 3087, 3463, 4275
  >>

\* slot_array with slot 0 at the offsets that have no operator
slot_array_NoGaps(i) == IF slot_array_data[i + 1] < 0 THEN 0 ELSE slot_array_data[i + 1]

\* the tables as the code indexes them
slot_array(i) == slot_array_data[i + 1]
ksl_tab(i) == ksl_tab_data[i + 1]
sl_tab(i) == sl_tab_data[i + 1]
eg_inc(i) == eg_inc_data[i + 1]
eg_rate_select(i) == eg_rate_select_data[i + 1]
eg_rate_shift(i) == eg_rate_shift_data[i + 1]
mul_tab(i) == mul_tab_data[i + 1]
lfo_am_table(i) == lfo_am_table_data[i + 1]
lfo_pm_table(i) == lfo_pm_table_data[i + 1]

\* tl_tab[p] as init_tables() fills it: entry x*2 of row 0 is tl_tab_data, row i
\* is row 0 shifted right by i, odd entries are the bitwise complement
tl_tab(p) ==
  LET i == p \div (2 * TL_RES_LEN)
      x == (p % (2 * TL_RES_LEN)) \div 2
      n == Shr(tl_tab_data[x + 1], i)
  IN IF p % 2 = 0 THEN n ELSE (-n) - 1

\* sin_tab[w * SIN_LEN + i] as init_tables() fills it; waveform 0 is sin_tab_data
sin_tab(w, i) ==
  LET half == Bit(i, SIN_BITS - 1) = 1
      quarter == Bit(i, SIN_BITS - 2) = 1
      sin0(k) == sin_tab_data[k + 1]
      saw == IF half THEN ((SIN_LEN - 1) - i) * 16 + 1 ELSE i * 16
  IN CASE w = 0 -> sin0(i)
       [] w = 1 -> IF half THEN TL_TAB_LEN ELSE sin0(i)
       [] w = 2 -> sin0(i % (SIN_LEN \div 2))
       [] w = 3 -> IF quarter THEN TL_TAB_LEN ELSE sin0(i % (SIN_LEN \div 4))
       [] w = 4 -> IF half THEN TL_TAB_LEN ELSE sin0(i * 2)
       [] w = 5 -> IF half THEN TL_TAB_LEN ELSE sin0((i * 2) % (SIN_LEN \div 2))
       [] w = 6 -> IF half THEN 1 ELSE 0
       [] w = 7 -> IF saw < TL_TAB_LEN THEN saw ELSE TL_TAB_LEN

-----------------------------------------------------------------------------
(* FixedPoint<N>: an int holding value * 2^N.                              *)

\* FixedPoint(int i): i << FRACTION_BITS
FixedPointOf(i, bits) == i * Pow2(bits)
\* toInt(): value >> FRACTION_BITS
FixedPointToInt(value, bits) == Shr(value, bits)
\* operator+= of two fixed-point values, in the width of int
FixedPointAdd(a, b) == WrapAdd(a, b)

\* fnumToIncrement(block_fnum): FreqIndex(block_fnum & 0x03FF) >> (11 - block)
fnumToIncrement(block_fnum) ==
  LET block == (block_fnum \div 1024) % 8
  IN Shr(FixedPointOf(block_fnum % 1024, FREQ_FRACTION_BITS), 11 - block)

-----------------------------------------------------------------------------
(* YMF262Slot and YMF262Channel.                                           *)

\* YMF262Slot::YMF262Slot()
YMF262Slot ==
  [ Cnt |-> 0, Incr |-> 0, connect |-> ConnectNull, op1_out |-> <<0, 0>>,
    TL |-> 0, TLL |-> 0, volume |-> 0, sl |-> 0, wavetable |-> 0,
    eg_m_ar |-> 0, eg_m_dr |-> 0, eg_m_rr |-> 0,
    eg_sh_ar |-> 0, eg_sel_ar |-> 0, eg_sh_dr |-> 0, eg_sel_dr |-> 0,
    eg_sh_rr |-> 0, eg_sel_rr |-> 0,
    key |-> 0, fb_shift |-> 0, CON |-> FALSE, eg_type |-> FALSE,
    state |-> EG_OFF, AMmask |-> 0, vib |-> FALSE, waveform_number |-> 0,
    ar |-> 0, dr |-> 0, rr |-> 0, KSR |-> 0, ksl |-> 0, ksr |-> 0, mul |-> 0 ]

\* YMF262Channel::YMF262Channel()
YMF262Channel ==
  [ slots |-> [s \in {SLOT1, SLOT2} |-> YMF262Slot],
    block_fnum |-> 0, fc |-> 0, ksl_base |-> 0, kcode |-> 0, extended |-> 0 ]

\* YMF262Slot::setFeedbackShift
setFeedbackShift(slot, value) ==
  [slot EXCEPT !.fb_shift = IF value # 0 THEN 9 - value ELSE 0]

\* FM_KEYON restarting the phase and the attack on every key-on
FM_KEYON_Restart(slot, key_set) ==
  [slot EXCEPT !.Cnt = FixedPointOf(0, FREQ_FRACTION_BITS),
               !.state = EG_ATTACK,
               !.key = BitOr(slot.key, key_set)]

\* YMF262Slot::FM_KEYON
FM_KEYON(slot, key_set) ==
  IF slot.key = 0
  THEN [slot EXCEPT !.Cnt = FixedPointOf(0, FREQ_FRACTION_BITS),
                    !.state = EG_ATTACK,
                    !.key = BitOr(slot.key, key_set)]
  ELSE [slot EXCEPT !.key = BitOr(slot.key, key_set)]

\* FM_KEYOFF releasing the operator whenever no key source is left, also when
\* it held none and when it was OFF
FM_KEYOFF_Always(slot, key_clr) ==
  LET k == BitAnd(slot.key, ByteNot(key_clr))
  IN IF k = 0
     THEN [slot EXCEPT !.key = k, !.state = EG_RELEASE]
     ELSE [slot EXCEPT !.key = k]

\* FM_KEYOFF releasing the operator as soon as one key source is removed
FM_KEYOFF_AnySource(slot, key_clr) ==
  IF slot.key # 0 /\ slot.state # EG_OFF
  THEN [slot EXCEPT !.key = BitAnd(slot.key, ByteNot(key_clr)),
                    !.state = EG_RELEASE]
  ELSE slot

\* YMF262Slot::FM_KEYOFF
FM_KEYOFF(slot, key_clr) ==
  IF slot.key # 0
  THEN LET k == BitAnd(slot.key, ByteNot(key_clr))
       IN IF k = 0 /\ slot.state # EG_OFF
          THEN [slot EXCEPT !.key = k, !.state = EG_RELEASE]
          ELSE [slot EXCEPT !.key = k]
  ELSE slot

\* the attack (shift, select) pair read from the rate tables for every rate
AttackRate_Table(slot) ==
  [sh |-> eg_rate_shift(slot.ar + slot.ksr),
   sel |-> eg_rate_select(slot.ar + slot.ksr)]

\* the attack (shift, select) pair chosen by set_ar_dr and CALC_FCSLOT
AttackRate(slot) ==
  IF slot.ar + slot.ksr < 16 + 60
  THEN [sh |-> eg_rate_shift(slot.ar + slot.ksr),
        sel |-> eg_rate_select(slot.ar + slot.ksr)]
  ELSE [sh |-> 0, sel |-> 13 * RATE_STEPS]

\* YMF262Channel::CALC_FCSLOT: the slot as updated from channel ch
CALC_FCSLOT(ch, slot) ==
  LET s1 == [slot EXCEPT !.Incr = ch.fc * slot.mul]
      ksr == Shr(ch.kcode, slot.KSR)
      s2 == [s1 EXCEPT !.ksr = ksr]
      a == AttackRate(s2)
  IN IF slot.ksr = ksr THEN s1
     ELSE [s2 EXCEPT
             !.eg_sh_ar = a.sh,
             !.eg_sel_ar = a.sel,
             !.eg_m_ar = Pow2(a.sh) - 1,
             !.eg_sh_dr = eg_rate_shift(s2.dr + s2.ksr),
             !.eg_m_dr = Pow2(eg_rate_shift(s2.dr + s2.ksr)) - 1,
             !.eg_sel_dr = eg_rate_select(s2.dr + s2.ksr),
             !.eg_sh_rr = eg_rate_shift(s2.rr + s2.ksr),
             !.eg_m_rr = Pow2(eg_rate_shift(s2.rr + s2.ksr)) - 1,
             !.eg_sel_rr = eg_rate_select(s2.rr + s2.ksr)]

\* the envelope increment eg_inc[sel + ((eg_cnt >> sh) & 7)]
EgStep(sel, sh, eg_cnt) == eg_inc(sel + (Shr(eg_cnt, sh) % 8))

\* advanceEnvelopeGenerator with the attack leaving the overshoot in volume
advanceEnvelopeGenerator_NoFloor(slot, eg_cnt) ==
  CASE slot.state = EG_ATTACK ->
         IF BitAnd(eg_cnt, slot.eg_m_ar) = 0
         THEN LET vol == slot.volume
                         + Shr(((-slot.volume) - 1)
                               * EgStep(slot.eg_sel_ar, slot.eg_sh_ar, eg_cnt), 3)
              IN IF vol <= MIN_ATT_INDEX
                 THEN [slot EXCEPT !.volume = vol, !.state = EG_DECAY]
                 ELSE [slot EXCEPT !.volume = vol]
         ELSE slot
    [] slot.state = EG_DECAY ->
         IF BitAnd(eg_cnt, slot.eg_m_dr) = 0
         THEN LET vol == slot.volume
                         + EgStep(slot.eg_sel_dr, slot.eg_sh_dr, eg_cnt)
              IN IF vol >= slot.sl
                 THEN [slot EXCEPT !.volume = vol, !.state = EG_SUSTAIN]
                 ELSE [slot EXCEPT !.volume = vol]
         ELSE slot
    [] slot.state = EG_SUSTAIN ->
         IF slot.eg_type
         THEN slot
         ELSE IF BitAnd(eg_cnt, slot.eg_m_rr) = 0
              THEN LET vol == slot.volume
                              + EgStep(slot.eg_sel_rr, slot.eg_sh_rr, eg_cnt)
                   IN IF vol >= MAX_ATT_INDEX
                      THEN [slot EXCEPT !.volume = MAX_ATT_INDEX]
                      ELSE [slot EXCEPT !.volume = vol]
              ELSE slot
    [] slot.state = EG_RELEASE ->
         IF BitAnd(eg_cnt, slot.eg_m_rr) = 0
         THEN LET vol == slot.volume
                         + EgStep(slot.eg_sel_rr, slot.eg_sh_rr, eg_cnt)
              IN IF vol >= MAX_ATT_INDEX
                 THEN [slot EXCEPT !.volume = MAX_ATT_INDEX, !.state = EG_OFF]
                 ELSE [slot EXCEPT !.volume = vol]
         ELSE slot
    [] OTHER -> slot

\* advanceEnvelopeGenerator with the sustain phase ending like a release:
\* the envelope type is ignored and the operator is OFF at full attenuation
advanceEnvelopeGenerator_SustainEnds(slot, eg_cnt) ==
  CASE slot.state = EG_ATTACK ->
         IF BitAnd(eg_cnt, slot.eg_m_ar) = 0
         THEN LET vol == slot.volume
                         + Shr(((-slot.volume) - 1)
                               * EgStep(slot.eg_sel_ar, slot.eg_sh_ar, eg_cnt), 3)
              IN IF vol <= MIN_ATT_INDEX
                 THEN [slot EXCEPT !.volume = MIN_ATT_INDEX, !.state = EG_DECAY]
                 ELSE [slot EXCEPT !.volume = vol]
         ELSE slot
    [] slot.state = EG_DECAY ->
         IF BitAnd(eg_cnt, slot.eg_m_dr) = 0
         THEN LET vol == slot.volume
                         + EgStep(slot.eg_sel_dr, slot.eg_sh_dr, eg_cnt)
              IN IF vol >= slot.sl
                 THEN [slot EXCEPT !.volume = vol, !.state = EG_SUSTAIN]
                 ELSE [slot EXCEPT !.volume = vol]
         ELSE slot
    [] slot.state \in {EG_SUSTAIN, EG_RELEASE} ->
         IF BitAnd(eg_cnt, slot.eg_m_rr) = 0
         THEN LET vol == slot.volume
                         + EgStep(slot.eg_sel_rr, slot.eg_sh_rr, eg_cnt)
              IN IF vol >= MAX_ATT_INDEX
                 THEN [slot EXCEPT !.volume = MAX_ATT_INDEX, !.state = EG_OFF]
                 ELSE [slot EXCEPT !.volume = vol]
         ELSE slot
    [] OTHER -> slot

\* YMF262Slot::advanceEnvelopeGenerator
advanceEnvelopeGenerator(slot, eg_cnt) ==
  CASE slot.state = EG_ATTACK ->
         IF BitAnd(eg_cnt, slot.eg_m_ar) = 0
         THEN LET vol == slot.volume
                         + Shr(((-slot.volume) - 1)
                               * EgStep(slot.eg_sel_ar, slot.eg_sh_ar, eg_cnt), 3)
              IN IF vol <= MIN_ATT_INDEX
                 THEN [slot EXCEPT !.volume = MIN_ATT_INDEX, !.state = EG_DECAY]
                 ELSE [slot EXCEPT !.volume = vol]
         ELSE slot
    [] slot.state = EG_DECAY ->
         IF BitAnd(eg_cnt, slot.eg_m_dr) = 0
         THEN LET vol == slot.volume
                         + EgStep(slot.eg_sel_dr, slot.eg_sh_dr, eg_cnt)
              IN IF vol >= slot.sl
                 THEN [slot EXCEPT !.volume = vol, !.state = EG_SUSTAIN]
                 ELSE [slot EXCEPT !.volume = vol]
         ELSE slot
    [] slot.state = EG_SUSTAIN ->
         IF slot.eg_type
         THEN slot
         ELSE IF BitAnd(eg_cnt, slot.eg_m_rr) = 0
              THEN LET vol == slot.volume
                              + EgStep(slot.eg_sel_rr, slot.eg_sh_rr, eg_cnt)
                   IN IF vol >= MAX_ATT_INDEX
                      THEN [slot EXCEPT !.volume = MAX_ATT_INDEX]
                      ELSE [slot EXCEPT !.volume = vol]
              ELSE slot
    [] slot.state = EG_RELEASE ->
         IF BitAnd(eg_cnt, slot.eg_m_rr) = 0
         THEN LET vol == slot.volume
                         + EgStep(slot.eg_sel_rr, slot.eg_sh_rr, eg_cnt)
              IN IF vol >= MAX_ATT_INDEX
                 THEN [slot EXCEPT !.volume = MAX_ATT_INDEX, !.state = EG_OFF]
                 ELSE [slot EXCEPT !.volume = vol]
         ELSE slot
    [] OTHER -> slot

\* YMF262Slot::advancePhaseGenerator
advancePhaseGenerator(slot, ch, LFO_PM) ==
  IF slot.vib
  THEN LET fnum_lfo == (ch.block_fnum \div 128) % 8
           lfo_fn_table_index_offset == lfo_pm_table(LFO_PM + 16 * fnum_lfo)
       IN IF lfo_fn_table_index_offset # 0
          THEN [slot EXCEPT !.Cnt = FixedPointAdd(slot.Cnt,
                  fnumToIncrement(ch.block_fnum + lfo_fn_table_index_offset)
                  * slot.mul)]
          ELSE [slot EXCEPT !.Cnt = FixedPointAdd(slot.Cnt, slot.Incr)]
  ELSE [slot EXCEPT !.Cnt = FixedPointAdd(slot.Cnt, slot.Incr)]

\* YMF262Slot::op_calc
op_calc(slot, phase, pm, LFO_AM) ==
  LET env == (slot.TLL + slot.volume + BitAnd(LFO_AM, slot.AMmask)) * 16
      p == env + sin_tab(slot.wavetable, (phase + pm) % SIN_LEN)
  IN IF p < TL_TAB_LEN THEN tl_tab(p) ELSE 0

-----------------------------------------------------------------------------
(* YMF262Impl: the chip record.  Its fields are the members of the class   *)
(* (and the two static modulation inputs); irq, timer1 and timer2 are the  *)
(* collaborators the chip drives.                                          *)

Channels == 0 .. 17
Slots == {SLOT1, SLOT2}
\* the first channels of the six pairs that can form a 4-operator channel
FirstOfPair == {0, 1, 2, 9, 10, 11}
\* the second channels of those pairs
SecondOfPair == {3, 4, 5, 12, 13, 14}

\* EmuTimer: the reload value and the started flag the chip sets
EmuTimer == [value |-> 0, start |-> FALSE]
setValue(timer, v) == [timer EXCEPT !.value = v]
setStart(timer, start) == [timer EXCEPT !.start = start]

\* setStatus raising the interrupt for a flag the mask disables as well
setStatus_Unmasked(S, flag) ==
  [S EXCEPT !.status = BitOr(BitOr(S.status, flag), 128), !.irq = TRUE]

\* YMF262Impl::setStatus
setStatus(S, flag) ==
  LET st == BitOr(S.status, flag)
  IN IF BitAnd(st, S.statusMask) # 0
     THEN [S EXCEPT !.status = BitOr(st, 128), !.irq = TRUE]
     ELSE [S EXCEPT !.status = st]

\* resetStatus toggling the flags instead of clearing them
resetStatus_Toggle(S, flag) ==
  LET st == BitXor(S.status, flag)
  IN IF BitAnd(st, S.statusMask) = 0
     THEN [S EXCEPT !.status = BitAnd(st, 127), !.irq = FALSE]
     ELSE [S EXCEPT !.status = st]

\* YMF262Impl::resetStatus
resetStatus(S, flag) ==
  LET st == BitAnd(S.status, ByteNot(flag))
  IN IF BitAnd(st, S.statusMask) = 0
     THEN [S EXCEPT !.status = BitAnd(st, 127), !.irq = FALSE]
     ELSE [S EXCEPT !.status = st]

\* changeStatusMask keeping the flags the new mask disables
changeStatusMask_KeepFlags(S, flag) ==
  IF S.status # 0
  THEN [S EXCEPT !.statusMask = flag, !.status = BitOr(S.status, 128), !.irq = TRUE]
  ELSE [S EXCEPT !.statusMask = flag, !.irq = FALSE]

\* YMF262Impl::changeStatusMask
changeStatusMask(S, flag) ==
  LET st == BitAnd(S.status, flag)
  IN IF st # 0
     THEN [S EXCEPT !.statusMask = flag, !.status = BitOr(st, 128), !.irq = TRUE]
     ELSE [S EXCEPT !.statusMask = flag, !.status = BitAnd(st, 127), !.irq = FALSE]

\* YMF262Impl::callback
callback(S, flag) == setStatus(S, flag)

\* the channel whose frequency data set_mul and set_ksl_tl use for a slot of
\* channel chan_no: the first channel of the pair for the second half of a
\* 4-operator channel in OPL3 mode, the slot's own channel otherwise
FreqDataChannel(S, chan_no) ==
  IF S.OPL3_mode /\ chan_no \in SecondOfPair /\ S.channels[chan_no - 3].extended # 0
  THEN S.channels[chan_no - 3]
  ELSE S.channels[chan_no]

\* YMF262Impl::set_mul
set_mul(S, sl, v) ==
  LET chan_no == sl \div 2
      slot == S.channels[chan_no].slots[sl % 2]
      s1 == [slot EXCEPT !.mul = mul_tab(v % 16),
                         !.KSR = IF Bit(v, 4) = 1 THEN 0 ELSE 2,
                         !.eg_type = Bit(v, 5) = 1,
                         !.vib = Bit(v, 6) = 1,
                         !.AMmask = IF Bit(v, 7) = 1 THEN 255 ELSE 0]
  IN [S EXCEPT !.channels[chan_no].slots[sl % 2] =
                  CALC_FCSLOT(FreqDataChannel(S, chan_no), s1)]

\* slot.TLL = slot.TL + (ch.ksl_base >> slot.ksl)
RefreshTLL(ch, slot) == [slot EXCEPT !.TLL = slot.TL + Shr(ch.ksl_base, slot.ksl)]

\* YMF262Impl::set_ksl_tl
set_ksl_tl(S, sl, v) ==
  LET chan_no == sl \div 2
      slot == S.channels[chan_no].slots[sl % 2]
      ksl == v \div 64
      s1 == [slot EXCEPT !.ksl = IF ksl # 0 THEN 3 - ksl ELSE 31,
                         !.TL = (v % 64) * Pow2(ENV_BITS - 1 - 7)]
  IN [S EXCEPT !.channels[chan_no].slots[sl % 2] =
                  RefreshTLL(FreqDataChannel(S, chan_no), s1)]

\* the rate code of a 4-bit rate field: 16 + (rate << 2), or 0 for rate 0
RateCode(rate) == IF rate # 0 THEN 16 + rate * 4 ELSE 0

\* YMF262Impl::set_ar_dr
set_ar_dr(S, sl, v) ==
  LET chan_no == sl \div 2
      slot == S.channels[chan_no].slots[sl % 2]
      s1 == [slot EXCEPT !.ar = RateCode(v \div 16), !.dr = RateCode(v % 16)]
      a == AttackRate(s1)
  IN [S EXCEPT !.channels[chan_no].slots[sl % 2] =
        [s1 EXCEPT !.eg_sh_ar = a.sh,
                   !.eg_sel_ar = a.sel,
                   !.eg_m_ar = Pow2(a.sh) - 1,
                   !.eg_sh_dr = eg_rate_shift(s1.dr + s1.ksr),
                   !.eg_m_dr = Pow2(eg_rate_shift(s1.dr + s1.ksr)) - 1,
                   !.eg_sel_dr = eg_rate_select(s1.dr + s1.ksr)]]

\* YMF262Impl::set_sl_rr
set_sl_rr(S, sl, v) ==
  LET chan_no == sl \div 2
      slot == S.channels[chan_no].slots[sl % 2]
      s1 == [slot EXCEPT !.sl = sl_tab(v \div 16), !.rr = RateCode(v % 16)]
  IN [S EXCEPT !.channels[chan_no].slots[sl % 2] =
        [s1 EXCEPT !.eg_sh_rr = eg_rate_shift(s1.rr + s1.ksr),
                   !.eg_m_rr = Pow2(eg_rate_shift(s1.rr + s1.ksr)) - 1,
                   !.eg_sel_rr = eg_rate_select(s1.rr + s1.ksr)]]

\* update_channels releasing the keys of the pair it re-links
update_channels_KeyOff(S, chan_no) ==
  [S EXCEPT !.channels[chan_no].slots =
              [s \in Slots |-> FM_KEYOFF(S.channels[chan_no].slots[s], 1)],
            !.channels[chan_no + 3].slots =
              [s \in Slots |-> FM_KEYOFF(S.channels[chan_no + 3].slots[s], 1)]]

\* YMF262Impl::update_channels (its body is empty in the source)
update_channels(S, chan_no) == S

\* case 0x104 of writeRegForce: the six 4-operator enable bits
WriteReg104(S, v) ==
  LET set(T, chan_no, bit) ==
        LET T1 == [T EXCEPT !.channels[chan_no].extended = Bit(v, bit)]
        IN IF T.channels[chan_no].extended # Bit(v, bit)
           THEN update_channels(T1, chan_no)
           ELSE T1
  IN set(set(set(set(set(set(S, 0, 0), 1, 1), 2, 2), 9, 3), 10, 4), 11, 5)

\* the 0x105 case opening every pan mask when it leaves OPL3 mode
WriteReg105_OpenPan(S, v) ==
  IF v % 2 = 1
  THEN [S EXCEPT !.OPL3_mode = TRUE, !.status2 = 2]
  ELSE [S EXCEPT !.OPL3_mode = FALSE,
                 !.pan = [i \in DOMAIN S.pan |-> PAN_ON]]

\* case 0x105 of writeRegForce: the OPL3 extensions enable register
WriteReg105(S, v) ==
  IF v % 2 = 1
  THEN [S EXCEPT !.OPL3_mode = TRUE, !.status2 = 2]
  ELSE [S EXCEPT !.OPL3_mode = FALSE]

\* case 0x00 of writeRegForce: the control registers 00-1F
WriteControl(S, r, v) ==
  CASE r % 32 = 2 -> [S EXCEPT !.timer1 = setValue(S.timer1, v)]
    [] r % 32 = 3 -> [S EXCEPT !.timer2 = setValue(S.timer2, v)]
    [] r % 32 = 4 ->
         IF BitAnd(v, R04_IRQ_RESET) # 0
         THEN resetStatus(S, 96)
         ELSE LET T == changeStatusMask(S, BitAnd(ByteNot(v), 96))
              IN [T EXCEPT !.timer1 = setStart(T.timer1, BitAnd(v, R04_ST1) # 0),
                           !.timer2 = setStart(T.timer2, BitAnd(v, R04_ST2) # 0)]
    [] r % 32 = 8 -> [S EXCEPT !.nts = Bit(v, 6) = 1]
    [] OTHER -> S

\* key on or off with key source key on both slots of channel chan_no
KeyChannel(S, chan_no, on, key) ==
  [S EXCEPT !.channels[chan_no].slots =
     [s \in Slots |->
        IF on THEN FM_KEYON(S.channels[chan_no].slots[s], key)
              ELSE FM_KEYOFF(S.channels[chan_no].slots[s], key)]]

\* key on or off with key source key on one slot
KeySlot(S, chan_no, s, on, key) ==
  [S EXCEPT !.channels[chan_no].slots[s] =
     IF on THEN FM_KEYON(S.channels[chan_no].slots[s], key)
           ELSE FM_KEYOFF(S.channels[chan_no].slots[s], key)]

\* register 0xBD releasing the percussion keys only while rhythm is enabled
WriteRegBD_NoRelease(S, v) ==
  LET T == [S EXCEPT !.lfo_am_depth = Bit(v, 7) = 1,
                     !.lfo_pm_depth_range = IF Bit(v, 6) = 1 THEN 8 ELSE 0,
                     !.rhythm = v % 64]
      bd == KeyChannel(T, 6, Bit(v, 4) = 1, 2)
      hh == KeySlot(bd, 7, SLOT1, Bit(v, 0) = 1, 2)
      sd == KeySlot(hh, 7, SLOT2, Bit(v, 3) = 1, 2)
      tom == KeySlot(sd, 8, SLOT1, Bit(v, 2) = 1, 2)
      top == KeySlot(tom, 8, SLOT2, Bit(v, 1) = 1, 2)
  IN IF Bit(v, 5) = 1 THEN top ELSE T

\* register 0xBD storing the vibrato depth bit as it is in the register
WriteRegBD_RawDepth(S, v) ==
  [S EXCEPT !.lfo_am_depth = Bit(v, 7) = 1,
            !.lfo_pm_depth_range = BitAnd(v, 64),
            !.rhythm = v % 64]

\* register 0xBD of writeRegForce: am depth, vibrato depth, rhythm and the
\* five percussion keys
WriteRegBD(S, v) ==
  LET T == [S EXCEPT !.lfo_am_depth = Bit(v, 7) = 1,
                     !.lfo_pm_depth_range = IF Bit(v, 6) = 1 THEN 8 ELSE 0,
                     !.rhythm = v % 64]
      en == Bit(v, 5) = 1
      bd == KeyChannel(T, 6, en /\ Bit(v, 4) = 1, 2)
      hh == KeySlot(bd, 7, SLOT1, en /\ Bit(v, 0) = 1, 2)
      sd == KeySlot(hh, 7, SLOT2, en /\ Bit(v, 3) = 1, 2)
      tom == KeySlot(sd, 8, SLOT1, en /\ Bit(v, 2) = 1, 2)
      top == KeySlot(tom, 8, SLOT2, en /\ Bit(v, 1) = 1, 2)
  IN top

\* the key on/off of a write to b0-b8 keying the written channel only
WriteKeyOn_OwnChannel(S, chan_no, v) == KeyChannel(S, chan_no, Bit(v, 5) = 1, 1)

\* the key on/off of a write to b0-b8 (the switch on chan_no in OPL3 mode)
WriteKeyOn(S, chan_no, v) ==
  LET on == Bit(v, 5) = 1
  IN IF S.OPL3_mode
     THEN CASE chan_no \in FirstOfPair ->
                 IF S.channels[chan_no].extended # 0
                 THEN KeyChannel(KeyChannel(S, chan_no, on, 1), chan_no + 3, on, 1)
                 ELSE KeyChannel(S, chan_no, on, 1)
            [] chan_no \in SecondOfPair ->
                 IF S.channels[chan_no - 3].extended # 0
                 THEN S
                 ELSE KeyChannel(S, chan_no, on, 1)
            [] OTHER -> KeyChannel(S, chan_no, on, 1)
     ELSE KeyChannel(S, chan_no, on, 1)

\* refresh Total Level and the frequency counter in both slots of channel
\* target using the data of channel src
RefreshSlots(S, src, target) ==
  [S EXCEPT !.channels[target].slots =
     [s \in Slots |->
        CALC_FCSLOT(S.channels[src],
                    RefreshTLL(S.channels[src], S.channels[target].slots[s]))]]

\* the "update" part of a write to a0-a8 / b0-b8 when block_fnum changed
UpdateBlockFnum(S, chan_no, block_fnum) ==
  LET kc == ((block_fnum \div 1024) % 8) * 2
            + (IF S.nts THEN Bit(block_fnum, 8) ELSE Bit(block_fnum, 9))
      T == [S EXCEPT !.channels[chan_no].block_fnum = block_fnum,
                     !.channels[chan_no].ksl_base = ksl_tab(Shr(block_fnum, 6)),
                     !.channels[chan_no].fc = fnumToIncrement(block_fnum),
                     !.channels[chan_no].kcode = kc]
  IN IF T.OPL3_mode
     THEN CASE chan_no \in FirstOfPair ->
                 IF T.channels[chan_no].extended # 0
                 THEN RefreshSlots(RefreshSlots(T, chan_no, chan_no),
                                   chan_no, chan_no + 3)
                 ELSE RefreshSlots(T, chan_no, chan_no)
            [] chan_no \in SecondOfPair ->
                 IF T.channels[chan_no - 3].extended # 0
                 THEN T
                 ELSE RefreshSlots(T, chan_no, chan_no)
            [] OTHER -> RefreshSlots(T, chan_no, chan_no)
     ELSE RefreshSlots(T, chan_no, chan_no)

\* case 0xA0 of writeRegForce other than 0xBD: keyon, block, fnum
WriteFreq(S, r, v, ch_offset) ==
  IF r % 16 > 8 THEN S
  ELSE LET chan_no == (r % 16) + ch_offset
           old == S.channels[chan_no].block_fnum
           block_fnum == IF Bit(r, 4) = 0
                         THEN (((old \div 256) % 32) * 256) + v
                         ELSE ((v % 32) * 256) + (old % 256)
           T == IF Bit(r, 4) = 0 THEN S ELSE WriteKeyOn(S, chan_no, v)
       IN IF old # block_fnum
          THEN UpdateBlockFnum(T, chan_no, block_fnum)
          ELSE T

\* the connect pointers of the pair wired 1 -> 2 -> 3 -> 4 whatever the
\* connection bits are
Connect4op_Serial(S, first) ==
  [S EXCEPT !.channels[first].slots[SLOT1].connect = ConnectPM,
            !.channels[first].slots[SLOT2].connect = ConnectPM2,
            !.channels[first + 3].slots[SLOT1].connect = ConnectPM,
            !.channels[first + 3].slots[SLOT2].connect = ConnectChanout(first + 3)]

\* the connect pointers of the four slots of the 4-operator channel formed by
\* channels first and first + 3, by (CON of first << 1) | CON of first + 3
Connect4op(S, first) ==
  LET con1 == S.channels[first].slots[SLOT1].CON
      con2 == S.channels[first + 3].slots[SLOT1].CON
      c == CASE ~con1 /\ ~con2 ->
                  <<ConnectPM, ConnectPM2, ConnectPM, ConnectChanout(first + 3)>>
             [] ~con1 /\ con2 ->
                  <<ConnectPM, ConnectChanout(first), ConnectPM,
                    ConnectChanout(first + 3)>>
             [] con1 /\ ~con2 ->
                  <<ConnectChanout(first), ConnectPM2, ConnectPM,
                    ConnectChanout(first + 3)>>
             [] con1 /\ con2 ->
                  <<ConnectChanout(first), ConnectPM2, ConnectChanout(first + 3),
                    ConnectChanout(first + 3)>>
  IN [S EXCEPT !.channels[first].slots[SLOT1].connect = c[1],
               !.channels[first].slots[SLOT2].connect = c[2],
               !.channels[first + 3].slots[SLOT1].connect = c[3],
               !.channels[first + 3].slots[SLOT2].connect = c[4]]

\* the connect pointers of a channel in 2 operators mode
Connect2op(S, chan_no) ==
  [S EXCEPT !.channels[chan_no].slots[SLOT1].connect =
               IF S.channels[chan_no].slots[SLOT1].CON
               THEN ConnectChanout(chan_no) ELSE ConnectPM,
            !.channels[chan_no].slots[SLOT2].connect = ConnectChanout(chan_no)]

\* case 0xC0 of writeRegForce: CH.D, CH.C, CH.B, CH.A, FB(3bits), C
WriteConnect(S, r, v, ch_offset) ==
  IF r % 16 > 8 THEN S
  ELSE LET chan_no == (r % 16) + ch_offset
           base == chan_no * 4
           panOf(i) == IF S.OPL3_mode
                       THEN (IF Bit(v, 4 + i) = 1 THEN PAN_ON ELSE 0)
                       ELSE PAN_ON
           T == [S EXCEPT
                   !.pan = [i \in DOMAIN S.pan |->
                              IF i \in base .. base + 3
                              THEN panOf(i - base) ELSE S.pan[i]],
                   !.channels[chan_no].slots[SLOT1] =
                      [setFeedbackShift(S.channels[chan_no].slots[SLOT1],
                                        (v \div 2) % 8)
                         EXCEPT !.CON = v % 2 = 1]]
       IN IF T.OPL3_mode
          THEN CASE chan_no \in FirstOfPair ->
                      IF T.channels[chan_no].extended # 0
                      THEN Connect4op(T, chan_no)
                      ELSE Connect2op(T, chan_no)
                 [] chan_no \in SecondOfPair ->
                      IF T.channels[chan_no - 3].extended # 0
                      THEN Connect4op(T, chan_no - 3)
                      ELSE Connect2op(T, chan_no)
                 [] OTHER -> Connect2op(T, chan_no)
          ELSE Connect2op(T, chan_no)

\* the waveform select storing the number of the table it selects
WriteWaveform_Selected(S, sl, v) ==
  [S EXCEPT !.channels[sl \div 2].slots[sl % 2] =
     [@ EXCEPT !.waveform_number = IF S.OPL3_mode THEN v % 8 ELSE v % 4,
               !.wavetable = IF S.OPL3_mode THEN v % 8 ELSE v % 4]]

\* case 0xE0 of writeRegForce: waveform select
WriteWaveform(S, sl, v) ==
  [S EXCEPT !.channels[sl \div 2].slots[sl % 2] =
     [@ EXCEPT !.waveform_number = v % 8,
               !.wavetable = IF S.OPL3_mode THEN v % 8 ELSE v % 4]]

\* YMF262Impl::writeRegForce
writeRegForce(S0, r, v) ==
  LET S == [S0 EXCEPT !.reg[r] = v]
      ch_offset == IF r >= 256 THEN 9 ELSE 0
      lo == r % 256
      slot == slot_array(lo % 32)
  IN CASE r = 257 -> S
       [] r = 260 -> WriteReg104(S, v)
       [] r = 261 -> WriteReg105(S, v)
       [] OTHER ->
            CASE lo \div 32 = 0 -> WriteControl(S, lo, v)
              [] lo \div 32 = 1 ->
                   IF slot < 0 THEN S ELSE set_mul(S, slot + ch_offset * 2, v)
              [] lo \div 32 = 2 ->
                   IF slot < 0 THEN S ELSE set_ksl_tl(S, slot + ch_offset * 2, v)
              [] lo \div 32 = 3 ->
                   IF slot < 0 THEN S ELSE set_ar_dr(S, slot + ch_offset * 2, v)
              [] lo \div 32 = 4 ->
                   IF slot < 0 THEN S ELSE set_sl_rr(S, slot + ch_offset * 2, v)
              [] lo \div 32 = 5 ->
                   IF lo = 189
                   THEN (IF ch_offset # 0 THEN S ELSE WriteRegBD(S, v))
                   ELSE WriteFreq(S, lo, v, ch_offset)
              [] lo \div 32 = 6 -> WriteConnect(S, lo, v, ch_offset)
              [] lo \div 32 = 7 ->
                   IF slot < 0 THEN S ELSE WriteWaveform(S, slot + ch_offset * 2, v)

\* writeReg passing every address of page 2 on as it is
writeReg_Unmasked(S, r, v) == writeRegForce(S, r, v)

\* YMF262Impl::writeReg
writeReg(S, r, v) ==
  IF ~S.OPL3_mode /\ r # 261
  THEN writeRegForce(S, IF r >= 256 THEN r - 256 ELSE r, v)
  ELSE writeRegForce(S, r, v)

-----------------------------------------------------------------------------
(* Sample generation.                                                      *)

\* advance_lfo without the wrap of the AM counter at the end of its table
advance_lfo_NoWrap(S) ==
  LET am == S.lfo_am_cnt + 1
      tmp == lfo_am_table(FixedPointToInt(am, LFOAM_FRACTION_BITS) % LFO_AM_TAB_ELEMENTS)
      pm == WrapAdd(S.lfo_pm_cnt, 1)
  IN [S EXCEPT !.lfo_am_cnt = am,
               !.LFO_AM = IF S.lfo_am_depth THEN tmp ELSE tmp \div 4,
               !.lfo_pm_cnt = pm,
               !.LFO_PM = BitOr(FixedPointToInt(pm, LFOPM_FRACTION_BITS) % 8,
                                S.lfo_pm_depth_range)]

\* YMF262Impl::advance_lfo
advance_lfo(S) ==
  LET am == IF S.lfo_am_cnt + 1 = FixedPointOf(LFO_AM_TAB_ELEMENTS, LFOAM_FRACTION_BITS)
            THEN FixedPointOf(0, LFOAM_FRACTION_BITS)
            ELSE S.lfo_am_cnt + 1
      tmp == lfo_am_table(FixedPointToInt(am, LFOAM_FRACTION_BITS))
      pm == WrapAdd(S.lfo_pm_cnt, 1)
  IN [S EXCEPT !.lfo_am_cnt = am,
               !.LFO_AM = IF S.lfo_am_depth THEN tmp ELSE tmp \div 4,
               !.lfo_pm_cnt = pm,
               !.LFO_PM = BitOr(FixedPointToInt(pm, LFOPM_FRACTION_BITS) % 8,
                                S.lfo_pm_depth_range)]

\* a shift of the noise register without the feedback taps
NoiseStep_ShiftOnly(noise_rng) == Shr(noise_rng, 1)

\* the step of the noise shift register in advance()
NoiseStep(noise_rng) ==
  IF noise_rng % 2 = 1
  THEN Shr(BitXor(noise_rng, 8389378), 1)
  ELSE Shr(noise_rng, 1)

\* YMF262Impl::advance
advance(S) ==
  LET cnt == S.eg_cnt + 1
  IN [S EXCEPT
        !.eg_cnt = cnt,
        !.channels = [c \in Channels |->
           [S.channels[c] EXCEPT !.slots = [s \in Slots |->
              advancePhaseGenerator(
                advanceEnvelopeGenerator(S.channels[c].slots[s], cnt),
                S.channels[c], S.LFO_PM)]]],
        !.noise_rng = NoiseStep(S.noise_rng)]

\* *connect += value
AddToConnect(S, connect, value) ==
  CASE connect = ConnectPM -> [S EXCEPT !.phase_modulation = @ + value]
    [] connect = ConnectPM2 -> [S EXCEPT !.phase_modulation2 = @ + value]
    [] connect \in Channels -> [S EXCEPT !.chanout[connect] = @ + value]

\* Cnt.toInt() of a slot
Phase(slot) == FixedPointToInt(slot.Cnt, FREQ_FRACTION_BITS)

\* the feedback input of operator 1 in chan_calc and chan_calc_rhythm, read
\* after op1_out[0] = op1_out[1] has been executed
FeedbackInput(slot) ==
  LET moved == [slot EXCEPT !.op1_out[1] = slot.op1_out[2]]
      out == IF moved.fb_shift # 0 THEN moved.op1_out[1] + moved.op1_out[2] ELSE 0
  IN Shr(out, moved.fb_shift)

\* YMF262Channel::chan_calc on channel c
chan_calc(S, c) ==
  LET S0 == [S EXCEPT !.phase_modulation = 0, !.phase_modulation2 = 0]
      slot1 == S0.channels[c].slots[SLOT1]
      o1 == op_calc(slot1, Phase(slot1), FeedbackInput(slot1), S0.LFO_AM)
      S1 == AddToConnect(
              [S0 EXCEPT !.channels[c].slots[SLOT1].op1_out = <<slot1.op1_out[2], o1>>],
              slot1.connect, o1)
      slot2 == S1.channels[c].slots[SLOT2]
  IN AddToConnect(S1, slot2.connect,
                  op_calc(slot2, Phase(slot2), S1.phase_modulation, S1.LFO_AM))

\* YMF262Channel::chan_calc_ext on channel c
chan_calc_ext(S, c) ==
  LET S0 == [S EXCEPT !.phase_modulation = 0]
      slot1 == S0.channels[c].slots[SLOT1]
      S1 == AddToConnect(S0, slot1.connect,
              op_calc(slot1, Phase(slot1), S0.phase_modulation2, S0.LFO_AM))
      slot2 == S1.channels[c].slots[SLOT2]
  IN AddToConnect(S1, slot2.connect,
                  op_calc(slot2, Phase(slot2), S1.phase_modulation, S1.LFO_AM))

\* (bit2 ^ bit7) | bit3 of the phase of operator 1 in channel 7
Res1(op71phase) ==
  (Bit(op71phase, 2) # Bit(op71phase, 7)) \/ Bit(op71phase, 3) = 1

\* YMF262Impl::genPhaseHighHat
genPhaseHighHat(S) ==
  LET op71phase == Phase(S.channels[7].slots[SLOT1])
      op82phase == Phase(S.channels[8].slots[SLOT2])
      res2 == Bit(op82phase, 3) # Bit(op82phase, 5)
      phase == IF res2 \/ Res1(op71phase) THEN 512 + 52 ELSE 208
      noise == S.noise_rng % 2 = 1
  IN IF phase >= 512
     THEN (IF noise THEN 512 + 208 ELSE phase)
     ELSE (IF noise THEN 52 ELSE phase)

\* YMF262Impl::genPhaseSnare
genPhaseSnare(S) ==
  BitXor(Bit(Phase(S.channels[7].slots[SLOT1]), 8) * 256 + 256,
         (S.noise_rng % 2) * 256)

\* YMF262Impl::genPhaseCymbal
genPhaseCymbal(S) ==
  LET op82phase == Phase(S.channels[8].slots[SLOT2])
  IN IF Bit(op82phase, 5) # Bit(op82phase, 3)
     THEN 768
     ELSE IF Res1(Phase(S.channels[7].slots[SLOT1])) THEN 768 ELSE 256

\* YMF262Impl::chan_calc_rhythm
chan_calc_rhythm(S) ==
  LET SLOT6_1 == S.channels[6].slots[SLOT1]
      SLOT6_2 == S.channels[6].slots[SLOT2]
      pm == IF ~SLOT6_1.CON THEN SLOT6_1.op1_out[2] ELSE 0
      o1 == op_calc(SLOT6_1, Phase(SLOT6_1), FeedbackInput(SLOT6_1), S.LFO_AM)
      bd == op_calc(SLOT6_2, Phase(SLOT6_2), pm, S.LFO_AM) * 2
      hh == op_calc(S.channels[7].slots[SLOT1], genPhaseHighHat(S), 0, S.LFO_AM) * 2
      sd == op_calc(S.channels[7].slots[SLOT2], genPhaseSnare(S), 0, S.LFO_AM) * 2
      tom == op_calc(S.channels[8].slots[SLOT1],
                     Phase(S.channels[8].slots[SLOT1]), 0, S.LFO_AM) * 2
      top == op_calc(S.channels[8].slots[SLOT2], genPhaseCymbal(S), 0, S.LFO_AM) * 2
  IN [S EXCEPT !.phase_modulation = pm,
               !.channels[6].slots[SLOT1].op1_out = <<SLOT6_1.op1_out[2], o1>>,
               !.chanout[6] = @ + bd,
               !.chanout[7] = @ + hh + sd,
               !.chanout[8] = @ + tom + top]

\* checkMuteHelper taking every released operator for inaudible
checkMuteHelper_AnyRelease(S) ==
  \A i \in Channels : \A j \in Slots :
    S.channels[i].slots[j].state \in {EG_OFF, EG_RELEASE}

\* YMF262Impl::checkMuteHelper
checkMuteHelper(S) ==
  \A i \in Channels : \A j \in Slots :
    LET sl == S.channels[i].slots[j]
    IN \/ sl.state = EG_OFF
       \/ /\ sl.state = EG_RELEASE
          /\ sl.TLL + sl.volume >= ENV_QUIET

\* YMF262Impl::adjust
adjust(x) == x * 4

\* the order in which the sample loop of generateChannels visits the channels
CalcOrder == <<0, 3, 1, 4, 2, 5, 6, 7, 8, 9, 12, 10, 13, 11, 14, 15, 16, 17>>

\* what the sample loop of generateChannels calls for channel c: chan_calc,
\* chan_calc_ext for the 2nd part of a 4-op channel, and chan_calc_rhythm once
\* for channels 6, 7 and 8 when rhythm is enabled
CalcChannel(S, c) ==
  LET rhythmEnabled == BitAnd(S.rhythm, 32) # 0
  IN CASE c \in SecondOfPair ->
            IF S.channels[c - 3].extended # 0
            THEN chan_calc_ext(S, c)
            ELSE chan_calc(S, c)
       [] c = 6 -> IF rhythmEnabled THEN chan_calc_rhythm(S) ELSE chan_calc(S, c)
       [] c \in {7, 8} -> IF rhythmEnabled THEN S ELSE chan_calc(S, c)
       [] OTHER -> chan_calc(S, c)

\* the channel calculations of one sample from position i of CalcOrder on (the
\* test makes TLC finish one channel before it starts the next)
RECURSIVE CalcFrom(_, _)
CalcFrom(S, i) ==
  IF i > Len(CalcOrder) THEN S
  ELSE LET T == CalcChannel(S, CalcOrder[i])
       IN IF T.eg_cnt = S.eg_cnt THEN CalcFrom(T, i + 1) ELSE T

\* the channel calculations of one sample
CalcChannels(S) == CalcFrom(S, 1)

\* the two samples of channel i written without the pan masks
SamplePair_Unmasked(S, i) == << adjust(S.chanout[i]), adjust(S.chanout[i]) >>

\* the two samples of channel i written to bufs[i] for one sample
SamplePair(S, i) ==
  << adjust(IF S.pan[4 * i + 0] # 0 THEN S.chanout[i] ELSE 0),
     adjust(IF S.pan[4 * i + 1] # 0 THEN S.chanout[i] ELSE 0) >>

\* one iteration of the sample loop with advance() ahead of the channel
\* calculation
GenerateSample_AdvanceFirst(S) ==
  LET A == advance(advance_lfo(S))
      C == CalcChannels([A EXCEPT !.chanout = [i \in Channels |-> 0]])
  IN [C EXCEPT !.bufs = [i \in Channels |->
        [@[i] EXCEPT !.samples = Append(@, SamplePair(C, i))]]]

\* one iteration of the sample loop of generateChannels
GenerateSample(S) ==
  LET L == advance_lfo(S)
      C == CalcChannels([L EXCEPT !.chanout = [i \in Channels |-> 0]])
      W == [C EXCEPT !.bufs = [i \in Channels |->
              [@[i] EXCEPT !.samples = Append(@, SamplePair(C, i))]]]
  IN advance(W)

\* the sample loop of generateChannels, split in halves like WriteZeros
RECURSIVE GenerateSamples(_, _)
GenerateSamples(S, num) ==
  IF num = 0 THEN S
  ELSE IF num = 1 THEN GenerateSample(S)
  ELSE LET half == num \div 2
           T == GenerateSamples(S, half)
       IN IF T.eg_cnt = S.eg_cnt + half
          THEN GenerateSamples(T, num - half)
          ELSE T

\* bufs[i] = 0 of the muted path, and a buffer with no sample written yet
NullBuffer == [null |-> TRUE, samples |-> <<>>]
EmptyBuffer == [null |-> FALSE, samples |-> <<>>]

\* YMF262Impl::generateChannels
generateChannels(S, num) ==
  IF checkMuteHelper(S)
  THEN [S EXCEPT !.bufs = [i \in Channels |-> NullBuffer]]
  ELSE GenerateSamples([S EXCEPT !.bufs = [i \in Channels |-> EmptyBuffer]], num)

-----------------------------------------------------------------------------
(* Reset, construction and status reads.                                   *)

\* writeRegForce(c, 0) for c = hi down to lo.  The range is split in halves
\* and the test on the last byte stored makes TLC finish the first half before
\* it starts the second, which keeps the evaluation shallow.
RECURSIVE WriteZeros(_, _, _)
WriteZeros(S, hi, lo) ==
  IF hi < lo THEN S
  ELSE IF hi = lo THEN writeRegForce(S, hi, 0)
  ELSE LET mid == (hi + lo + 1) \div 2
           T == WriteZeros(S, hi, mid)
       IN IF T.reg[mid] = 0 THEN WriteZeros(T, mid - 1, lo) ELSE T

\* reset without the loop that puts the operators in state OFF
reset_RegistersOnly(S) ==
  LET A == resetStatus([S EXCEPT !.eg_cnt = 0, !.noise_rng = 1, !.nts = FALSE], 96)
      B == writeRegForce(writeRegForce(writeRegForce(writeRegForce(A,
             1, 0), 2, 0), 3, 0), 4, 0)
      C == WriteZeros(B, 255, 32)
      D == WriteZeros(C, 511, 288)
  IN [D EXCEPT !.channels = [c \in Channels |->
        [D.channels[c] EXCEPT !.slots = [s \in Slots |->
           [D.channels[c].slots[s] EXCEPT !.state = @, !.volume = @]]]]]

\* reset putting the operators in state OFF at the volume they have
reset_StateOnly(S) ==
  LET D == reset_RegistersOnly(S)
  IN [D EXCEPT !.channels = [c \in Channels |->
        [D.channels[c] EXCEPT !.slots = [s \in Slots |->
           [D.channels[c].slots[s] EXCEPT !.state = EG_OFF]]]]]

\* YMF262Impl::reset
reset(S) ==
  LET A == resetStatus([S EXCEPT !.eg_cnt = 0, !.noise_rng = 1, !.nts = FALSE], 96)
      B == writeRegForce(writeRegForce(writeRegForce(writeRegForce(A,
             1, 0), 2, 0), 3, 0), 4, 0)
      C == WriteZeros(B, 255, 32)
      D == WriteZeros(C, 511, 288)
  IN [D EXCEPT !.channels = [c \in Channels |->
        [D.channels[c] EXCEPT !.slots = [s \in Slots |->
           [D.channels[c].slots[s] EXCEPT !.state = EG_OFF,
                                          !.volume = MAX_ATT_INDEX]]]]]

\* readStatus leaving status2 as it is
readStatus_NoClear(S) ==
  [chip |-> S, result |-> BitOr(S.status, S.status2)]

\* YMF262Impl::readStatus: the chip after the read and the byte returned
readStatus(S) ==
  [chip |-> [S EXCEPT !.status2 = 0], result |-> BitOr(S.status, S.status2)]

\* YMF262Impl::peekStatus
peekStatus(S) == BitOr(S.status, S.status2)

\* YMF262Impl::peekReg and readReg
peekReg(S, r) == S.reg[r]
readReg(S, r) == peekReg(S, r)


-----------------------------------------------------------------------------
(* HD: the hard disks of one machine.  They share the table hdInUse (one   *)
(* flag per id, obtained with getSharedStuff) and each is named "hd" and   *)
(* the letter of its id.  The table has MAX_HD flags; the model keeps it   *)
(* small and lets the machine hold up to MaxHDObjects HD objects, one more *)
(* than the table has flags.                                               *)

MAX_HD == 3
MaxHDObjects == 4
HDIds == 0 .. MAX_HD - 1
HDObjects == 1 .. MaxHDObjects

\* the character 'a'
LetterA == 97
\* the string "hdX" the constructor initialises name with
NameTemplate == <<"h", "d", "X">>
\* no HD object
NoHD == [name |-> << >>]

\* the search loop of HD::HD, entered at id: the first id from there whose
\* flag is clear, or MAX_HD when the loop throws
RECURSIVE FirstFree(_, _)
FirstFree(inUse, id) ==
  IF inUse[id]
  THEN IF id + 1 = MAX_HD THEN MAX_HD ELSE FirstFree(inUse, id + 1)
  ELSE id

\* HD::HD setting the flag of its id as soon as the id is found
HD_FlagFirst(inUse, fileOpens) ==
  LET id == FirstFree(inUse, 0)
  IN IF id = MAX_HD
     THEN [hdInUse |-> inUse, hd |-> NoHD, thrown |-> "Too many HDs"]
     ELSE IF ~fileOpens
          THEN [hdInUse |-> [inUse EXCEPT ![id] = TRUE], hd |-> NoHD,
                thrown |-> "File"]
          ELSE [hdInUse |-> [inUse EXCEPT ![id] = TRUE],
                hd |-> [name |-> [NameTemplate EXCEPT ![3] = LetterA + id]],
                thrown |-> ""]

\* HD::HD with the table inUse; fileOpens tells whether the image can be
\* opened and sized.  The result is the table, the object constructed (NoHD
\* when the constructor throws) and the exception thrown ("" for none).
HD(inUse, fileOpens) ==
  LET id == FirstFree(inUse, 0)
  IN IF id = MAX_HD
     THEN [hdInUse |-> inUse, hd |-> NoHD, thrown |-> "Too many HDs"]
     ELSE IF ~fileOpens
          THEN [hdInUse |-> inUse, hd |-> NoHD, thrown |-> "File"]
          ELSE [hdInUse |-> [inUse EXCEPT ![id] = TRUE],
                hd |-> [name |-> [NameTemplate EXCEPT ![3] = LetterA + id]],
                thrown |-> ""]

\* HD::~HD of the object hd: the table, and whether the assertion held (with
\* the flag already clear the table is the same whether the build aborts
\* there or clears the flag again)
HD_Destructor(inUse, hd) ==
  LET id == hd.name[3] - LetterA
  IN IF inUse[id]
     THEN [hdInUse |-> [inUse EXCEPT ![id] = FALSE], asserted |-> TRUE]
     ELSE [hdInUse |-> inUse, asserted |-> FALSE]
-----------------------------------------------------------------------------
(* The state: the members of YMF262Impl, the static modulation inputs, the *)
(* collaborators (irq, timers, the caller's buffers), and the operation    *)
(* the host performed last with the value it returned; and, for the hard   *)
(* disks of the machine, the in-use table they share and the live objects. *)

VARIABLES channels, reg, pan, chanout, eg_cnt, noise_rng,
          lfo_am_cnt, lfo_pm_cnt, LFO_AM, LFO_PM, lfo_am_depth,
          lfo_pm_depth_range, rhythm, nts, OPL3_mode,
          status, status2, statusMask,
          irq, timer1, timer2, phase_modulation, phase_modulation2,
          bufs, op, hdInUse, hds

chipvars == <<channels, reg, pan, chanout, eg_cnt, noise_rng,
              lfo_am_cnt, lfo_pm_cnt, LFO_AM, LFO_PM, lfo_am_depth,
              lfo_pm_depth_range, rhythm, nts, OPL3_mode,
              status, status2, statusMask,
              irq, timer1, timer2, phase_modulation, phase_modulation2, bufs>>

hdvars == <<hdInUse, hds>>

vars == <<chipvars, op, hdvars>>

\* the chip record of the current state
Chip ==
  [ channels |-> channels, reg |-> reg, pan |-> pan, chanout |-> chanout,
    eg_cnt |-> eg_cnt, noise_rng |-> noise_rng,
    lfo_am_cnt |-> lfo_am_cnt, lfo_pm_cnt |-> lfo_pm_cnt,
    LFO_AM |-> LFO_AM, LFO_PM |-> LFO_PM, lfo_am_depth |-> lfo_am_depth,
    lfo_pm_depth_range |-> lfo_pm_depth_range, rhythm |-> rhythm, nts |-> nts,
    OPL3_mode |-> OPL3_mode, status |-> status, status2 |-> status2,
    statusMask |-> statusMask, irq |-> irq, timer1 |-> timer1, timer2 |-> timer2,
    phase_modulation |-> phase_modulation,
    phase_modulation2 |-> phase_modulation2, bufs |-> bufs ]

\* the next state holds the chip record S
Install(S) ==
  /\ channels' = S.channels
  /\ reg' = S.reg
  /\ pan' = S.pan
  /\ chanout' = S.chanout
  /\ eg_cnt' = S.eg_cnt
  /\ noise_rng' = S.noise_rng
  /\ lfo_am_cnt' = S.lfo_am_cnt
  /\ lfo_pm_cnt' = S.lfo_pm_cnt
  /\ LFO_AM' = S.LFO_AM
  /\ LFO_PM' = S.LFO_PM
  /\ lfo_am_depth' = S.lfo_am_depth
  /\ lfo_pm_depth_range' = S.lfo_pm_depth_range
  /\ rhythm' = S.rhythm
  /\ nts' = S.nts
  /\ OPL3_mode' = S.OPL3_mode
  /\ status' = S.status
  /\ status2' = S.status2
  /\ statusMask' = S.statusMask
  /\ irq' = S.irq
  /\ timer1' = S.timer1
  /\ timer2' = S.timer2
  /\ phase_modulation' = S.phase_modulation
  /\ phase_modulation2' = S.phase_modulation2
  /\ bufs' = S.bufs

\* the entries of reg[] that neither the constructor nor reset() writes
UnwrittenRegs == {0} \cup (5 .. 31) \cup (256 .. 287)

\* The object as the constructor leaves it before it calls reset(): the
\* members it initialises, and junk in the arrays it does not (reg, pan,
\* chanout), which `new` leaves indeterminate.
Constructed(junk) ==
  [ channels |-> [c \in Channels |-> YMF262Channel],
    reg |-> [r \in 0 .. 511 |-> junk],
    pan |-> [i \in 0 .. 71 |-> junk],
    chanout |-> [i \in Channels |-> junk],
    eg_cnt |-> junk, noise_rng |-> junk,
    lfo_am_cnt |-> FixedPointOf(0, LFOAM_FRACTION_BITS),
    lfo_pm_cnt |-> FixedPointOf(0, LFOPM_FRACTION_BITS),
    LFO_AM |-> 0, LFO_PM |-> 0, lfo_am_depth |-> FALSE,
    lfo_pm_depth_range |-> 0, rhythm |-> 0, nts |-> FALSE,
    OPL3_mode |-> FALSE, status |-> 0, status2 |-> 0, statusMask |-> 0,
    irq |-> FALSE, timer1 |-> EmuTimer, timer2 |-> EmuTimer,
    phase_modulation |-> 0, phase_modulation2 |-> 0,
    bufs |-> [i \in Channels |-> NullBuffer] ]

\* YMF262Impl::YMF262Impl
YMF262Impl(junk) == reset(Constructed(junk))

\* the values the indeterminate bytes of a new object are drawn from
JunkBytes == {0, 165}

NoOp == [name |-> "new", r |-> 0, v |-> 0, result |-> 0]

\* the state holds the chip record S
Holds(S) ==
  /\ channels = S.channels
  /\ reg = S.reg
  /\ pan = S.pan
  /\ chanout = S.chanout
  /\ eg_cnt = S.eg_cnt
  /\ noise_rng = S.noise_rng
  /\ lfo_am_cnt = S.lfo_am_cnt
  /\ lfo_pm_cnt = S.lfo_pm_cnt
  /\ LFO_AM = S.LFO_AM
  /\ LFO_PM = S.LFO_PM
  /\ lfo_am_depth = S.lfo_am_depth
  /\ lfo_pm_depth_range = S.lfo_pm_depth_range
  /\ rhythm = S.rhythm
  /\ nts = S.nts
  /\ OPL3_mode = S.OPL3_mode
  /\ status = S.status
  /\ status2 = S.status2
  /\ statusMask = S.statusMask
  /\ irq = S.irq
  /\ timer1 = S.timer1
  /\ timer2 = S.timer2
  /\ phase_modulation = S.phase_modulation
  /\ phase_modulation2 = S.phase_modulation2
  /\ bufs = S.bufs

\* the machine before any hard disk is constructed: getSharedStuff creates
\* the table with every flag clear
NoHDs ==
  /\ hdInUse = [id \in HDIds |-> FALSE]
  /\ hds = [h \in HDObjects |-> NoHD]

Init ==
  \E junk \in JunkBytes :
    /\ Holds(YMF262Impl(junk))
    /\ op = NoOp
    /\ NoHDs

-----------------------------------------------------------------------------
(* The operations of the chip, as the host and the collaborators call them. *)

\* YMF262::writeReg(r, v)
Write(r, v) ==
  /\ Install(writeReg(Chip, r, v))
  /\ op' = [name |-> "write", r |-> r, v |-> v, result |-> 0]
  /\ UNCHANGED hdvars

\* YMF262Debuggable::write(address, value)
DebugWrite(r, v) ==
  /\ Install(writeRegForce(Chip, r, v))
  /\ op' = [name |-> "debugwrite", r |-> r, v |-> v, result |-> 0]
  /\ UNCHANGED hdvars

\* YMF262::reset
Reset ==
  /\ Install(reset(Chip))
  /\ op' = [name |-> "reset", r |-> 0, v |-> 0, result |-> 0]
  /\ UNCHANGED hdvars

\* SoundDevice calls generateChannels(bufs, num)
Generate(num) ==
  /\ Install(generateChannels(Chip, num))
  /\ op' = [name |-> "generate", r |-> 0, v |-> num, result |-> 0]
  /\ UNCHANGED hdvars

\* EmuTimer calls callback(flag) when a started timer expires
TimerExpire(flag) ==
  /\ \/ flag = STATUS_T1 /\ timer1.start
     \/ flag = STATUS_T2 /\ timer2.start
  /\ Install(callback(Chip, flag))
  /\ op' = [name |-> "callback", r |-> 0, v |-> flag, result |-> 0]
  /\ UNCHANGED hdvars

\* YMF262::readStatus
ReadStatus ==
  /\ Install(readStatus(Chip).chip)
  /\ op' = [name |-> "readStatus", r |-> 0, v |-> 0,
            result |-> readStatus(Chip).result]
  /\ UNCHANGED hdvars

\* YMF262::peekStatus
PeekStatus ==
  /\ UNCHANGED chipvars
  /\ op' = [name |-> "peekStatus", r |-> 0, v |-> 0, result |-> peekStatus(Chip)]
  /\ UNCHANGED hdvars

\* YMF262::readReg(r)
ReadReg(r) ==
  /\ UNCHANGED chipvars
  /\ op' = [name |-> "readReg", r |-> r, v |-> 0, result |-> readReg(Chip, r)]
  /\ UNCHANGED hdvars

-----------------------------------------------------------------------------
(* Specifications.  Each one lets the host perform the operations of one   *)
(* part of the interface, with register values drawn from a small set.     *)
(* lfo_pm_cnt counts the samples the chip has advanced through since it    *)
(* was constructed (reset() does not clear it), so it bounds the run.      *)

\* generateChannels(bufs, num) while at most max samples have been advanced
GenerateUpTo(num, max) ==
  /\ lfo_pm_cnt + num <= max
  /\ Generate(num)

\* Reset: OPL3 enable, a fused pair, both of its channels keyed, a keyed drum
MaxSamples == 1
ResetWrites == {<<261, 1>>, <<260, 1>>, <<176, 32>>, <<179, 32>>, <<189, 48>>}
ResetWrite == \E w \in ResetWrites : Write(w[1], w[2])
ResetGenerate == GenerateUpTo(1, MaxSamples)
Next == ResetWrite \/ ResetGenerate \/ Reset
Spec == Init /\ [][Next]_vars

\* Mode and page selection: 0x105, 0x104, and registers of page 2 (key-on of
\* channel 9, the multiplier of its second operator, and 0x1BD)
MaxModeSamples == 1
ModeWrites == {<<261, 1>>, <<261, 0>>, <<260, 1>>, <<260, 0>>, <<432, 32>>, <<291, 1>>,
               <<445, 32>>}
ModeWrite == \E w \in ModeWrites : Write(w[1], w[2])
ModeGenerate == GenerateUpTo(1, MaxModeSamples)
NextMode == ModeWrite \/ ModeGenerate
SpecMode == Init /\ [][NextMode]_vars

\* Status: 0x105, the timer control register, timer expiry, status reads
StatusWrites == {<<261, 1>>, <<261, 0>>, <<4, 3>>, <<4, 128>>, <<4, 64>>, <<4, 65>>,
                 <<260, 3>>}
StatusWrite == \E w \in StatusWrites : Write(w[1], w[2])
StatusExpire == \E flag \in {STATUS_T1, STATUS_T2} : TimerExpire(flag)
NextStatus == StatusWrite \/ StatusExpire \/ ReadStatus \/ PeekStatus
SpecStatus == Init /\ [][NextStatus]_vars

\* Keying: channel 6 through 0xB6, the drums through 0xBD, release rate 15
MaxKeySamples == 3
KeyWrites == {<<147, 15>>, <<182, 33>>, <<182, 1>>, <<189, 63>>, <<189, 47>>, <<189, 31>>}
KeyWrite == \E w \in KeyWrites : Write(w[1], w[2])
KeyGenerate == GenerateUpTo(1, MaxKeySamples)
NextKey == KeyWrite \/ KeyGenerate
SpecKey == Init /\ [][NextKey]_vars

\* Keying as in SpecKey, and the chip is reset before the second sample
KeyReset ==
  /\ lfo_pm_cnt <= 1
  /\ Reset
NextKeyReset == KeyWrite \/ KeyGenerate \/ KeyReset
SpecKeyReset == Init /\ [][NextKeyReset]_vars

\* Envelope: the first operator of channel 0 with the fastest rates, keyed on
\* and off and with either envelope type, while channel 1 can be keyed on and
\* stays audible.  An envelope
\* needs 124 samples from no attenuation to its sustain level, so the sound
\* device asks first for one sample or for one block of EnvBlock samples, and
\* after the block for up to MaxEnvFine single samples.
MaxEnvFine == 5
EnvBlock == 124
EnvWrites == {<<96, 255>>, <<128, 255>>, <<176, 32>>, <<176, 0>>, <<177, 32>>,
              <<32, 32>>}
EnvWrite == \E w \in EnvWrites : Write(w[1], w[2])
EnvGenerate ==
  \E num \in {1, EnvBlock} :
    /\ \/ lfo_pm_cnt = 0
       \/ /\ num = 1
          /\ lfo_pm_cnt >= EnvBlock
          /\ lfo_pm_cnt < EnvBlock + MaxEnvFine
    /\ Generate(num)
NextEnv == EnvWrite \/ EnvGenerate
SpecEnv == Init /\ [][NextEnv]_vars


\* Fusion: extended mode and the fusion of channels 0 and 3 switched on and
\* off, the connection bit of channel 0, the attack rate of its second
\* operator, and key-on of channels 0 and 3
MaxFuseSamples == 1
FuseWrites == {<<261, 1>>, <<261, 0>>, <<260, 1>>, <<260, 0>>, <<192, 1>>,
               <<99, 240>>, <<176, 32>>, <<179, 32>>}
FuseWrite == \E w \in FuseWrites : Write(w[1], w[2])
FuseGenerate == GenerateUpTo(1, MaxFuseSamples)
NextFuse == FuseWrite \/ FuseGenerate
SpecFuse == Init /\ [][NextFuse]_vars

\* Undefined addresses: operator-block offsets without an operator, the
\* frequency-block offsets above the ninth channel, the test register and
\* unused control addresses of both pages, written in both modes
UndefWrites == {<<261, 1>>, <<261, 0>>, <<38, 255>>, <<118, 255>>, <<231, 7>>,
                <<175, 255>>, <<185, 63>>, <<447, 255>>, <<1, 255>>, <<262, 255>>}
UndefWrite == \E w \in UndefWrites : Write(w[1], w[2])
NextUndef == UndefWrite
SpecUndef == Init /\ [][NextUndef]_vars

\* Waveforms and connection registers: waveform selects on the first operator
\* of channel 0 and, through page 2, on the second operator of channel 9 (of
\* channel 0 outside OPL3 mode), writes to 0xC9 and 0xD0, the fusion of
\* channels 0 and 3, and both directions of the mode switch
WaveWrites == {<<261, 1>>, <<261, 0>>, <<260, 1>>, <<224, 5>>, <<224, 15>>,
               <<483, 6>>, <<201, 15>>, <<208, 15>>}
WaveWrite == \E w \in WaveWrites : Write(w[1], w[2])
NextWave == WaveWrite
SpecWave == Init /\ [][NextWave]_vars

\* Four-operator voices.  The host programs the voice in a fixed order: OPL3
\* mode, channels 0 and 3 fused, attack rate 15 on the four operators of the
\* pair.  At any time it writes the key-on register of channel 0 (block 7,
\* key on or off) or the connection register of either half with either
\* connection bit; once the voice is programmed the sound device asks for
\* samples.
MaxTopoSamples == 2
TopoSetup == << <<261, 1>>, <<260, 1>>, <<96, 240>>, <<99, 240>>,
                <<104, 240>>, <<107, 240>> >>
TopoWrites == {<<176, 63>>, <<176, 31>>, <<192, 48>>, <<192, 49>>, <<195, 48>>, <<195, 49>>}
TopoProgrammed(n) == \A i \in 1 .. n : reg[TopoSetup[i][1]] = TopoSetup[i][2]
TopoWrite ==
  \E w \in TopoWrites \cup {TopoSetup[i] : i \in DOMAIN TopoSetup} :
    /\ \A i \in DOMAIN TopoSetup :
         w = TopoSetup[i] => TopoProgrammed(i - 1) /\ ~TopoProgrammed(i)
    /\ Write(w[1], w[2])
TopoGenerate ==
  /\ TopoProgrammed(Len(TopoSetup))
  /\ GenerateUpTo(1, MaxTopoSamples)
NextTopo == TopoWrite \/ TopoGenerate
SpecTopo == Init /\ [][NextTopo]_vars

\* Envelope rates and key codes: channel 0 at block 7 with frequency number
\* 0x200, channel 3 at block 1, the first operator of channel 3 with attack
\* rate 8, decay rate 4, release rate 8 and either key-scale-rate setting, the
\* note-select bit, OPL3 mode, and channels 0 and 3 fused or not
RateWrites == {<<261, 1>>, <<260, 1>>, <<260, 0>>, <<176, 30>>, <<179, 4>>,
               <<104, 132>>, <<136, 8>>, <<40, 16>>, <<8, 64>>}
RateWrite == \E w \in RateWrites : Write(w[1], w[2])
NextRate == RateWrite
SpecRate == Init /\ [][NextRate]_vars

\* One tone: the first operator of channel 0 with attack rate 15, channel 0
\* keyed at block 7 and keyed off, its connection register with feedback 7,
\* connection bit 1 and output enables none, A or B, in either mode, and the
\* highest total level and level scaling on the operator
MaxToneSamples == 3
ToneWrites == {<<261, 1>>, <<96, 240>>, <<176, 63>>, <<192, 15>>, <<192, 31>>,
               <<192, 47>>, <<176, 31>>, <<64, 255>>}
ToneWrite == \E w \in ToneWrites : Write(w[1], w[2])
ToneGenerate == GenerateUpTo(1, MaxToneSamples)
NextTone == ToneWrite \/ ToneGenerate
SpecTone == Init /\ [][NextTone]_vars

\* The LFOs.  lfo_am_cnt and lfo_pm_cnt count samples and reset() does not
\* clear them, so the chip is in the state InitLfo describes after n samples
\* were generated with a channel keyed and either setting of the two depth
\* flags, and reset() was called: the state a reset leaves, with the LFOs as
\* the n-th sample left them.  n is one of LfoStarts: the start, the end of
\* the first AM table entry, the end of the first vibrato step, the end of
\* the eighth vibrato step, the end of the AM table.  From there channel 1 is
\* keyed so that samples are not muted, 0xBD sets or clears the depth flags,
\* and the sound device asks for up to MaxLfoFine single samples.
MaxLfoFine == 4
LfoStarts == {0, 62, 1022, 8190, 13438}
LfoAfter(S, n, depth, range) ==
  IF n = 0 THEN S
  ELSE LET T == advance_lfo(
                  [S EXCEPT !.lfo_am_cnt = (n - 1) % FixedPointOf(LFO_AM_TAB_ELEMENTS,
                                                                  LFOAM_FRACTION_BITS),
                            !.lfo_pm_cnt = n - 1,
                            !.lfo_am_depth = depth,
                            !.lfo_pm_depth_range = range])
       IN [S EXCEPT !.lfo_am_cnt = T.lfo_am_cnt, !.lfo_pm_cnt = T.lfo_pm_cnt,
                    !.LFO_AM = T.LFO_AM, !.LFO_PM = T.LFO_PM]
InitLfo ==
  \E junk \in JunkBytes, n \in LfoStarts, depth \in BOOLEAN, range \in {0, 8} :
    /\ Holds(LfoAfter(YMF262Impl(junk), n, depth, range))
    /\ op = NoOp
    /\ NoHDs
LfoWrites == {<<177, 32>>, <<189, 192>>, <<189, 0>>}
LfoWrite == \E w \in LfoWrites : Write(w[1], w[2])
LfoGenerate ==
  /\ \E n \in LfoStarts : lfo_pm_cnt \in n .. n + MaxLfoFine - 1
  /\ Generate(1)
NextLfo == LfoWrite \/ LfoGenerate
SpecLfo == InitLfo /\ [][NextLfo]_vars

\* The noise shift register: channel 0 is keyed (its operators have attack
\* rate 0 and stay in ATTACK, so samples are not muted) and keyed off again
\* (its operators are released at full attenuation, so samples are muted), the
\* sound device asks for up to MaxNoiseSamples single samples, and the chip
\* is reset before the first of them or after a third of them.
MaxNoiseSamples == 400
NoiseWrites == {<<176, 32>>, <<176, 0>>}
NoiseWrite == \E w \in NoiseWrites : Write(w[1], w[2])
NoiseGenerate == GenerateUpTo(1, MaxNoiseSamples)
NoiseReset ==
  /\ lfo_pm_cnt \in {0, MaxNoiseSamples \div 3}
  /\ Reset
NextNoise == NoiseWrite \/ NoiseGenerate \/ NoiseReset
SpecNoise == Init /\ [][NextNoise]_vars

\* Attack rate 15: the first operator of channel 0 with attack rate 15 or 12
\* and release rate 15, with or without key scaling of the rates, channel 0
\* keyed at block 0 or at the top of block 7 and keyed off
MaxAttackSamples == 4
AttackWrites == {<<96, 240>>, <<96, 192>>, <<128, 15>>, <<32, 16>>,
                 <<176, 32>>, <<176, 62>>, <<176, 0>>}
AttackWrite == \E w \in AttackWrites : Write(w[1], w[2])
AttackGenerate == GenerateUpTo(1, MaxAttackSamples)
NextAttack == AttackWrite \/ AttackGenerate
SpecAttack == Init /\ [][NextAttack]_vars

\* Every address: the host enables OPL3 mode, gives the first operator of
\* channel 0 all its flags and rate 15 for attack, decay and release, keys
\* channel 0 with the highest frequency code and sets both depth flags with
\* the rhythm section keyed, in this order, and at one point of it writes
\* 255, the value with every field at its maximum, to any one other address
\* of the two pages; once all of it is written the sound device asks for up
\* to MaxProbeSamples single samples.
MaxProbeSamples == 1
ProbeSetup == <<261, 32, 96, 128, 160, 176, 189>>
ProbeProgrammed(n) == \A i \in 1 .. n : reg[ProbeSetup[i]] = 255
ProbeSetupWrite ==
  \E i \in DOMAIN ProbeSetup :
    /\ ProbeProgrammed(i - 1)
    /\ ~ProbeProgrammed(i)
    /\ Write(ProbeSetup[i], 255)
ProbeWrite ==
  /\ {q \in 0 .. 511 : reg[q] = 255} \subseteq {ProbeSetup[i] : i \in DOMAIN ProbeSetup}
  /\ \E r \in 0 .. 511 :
       /\ \A i \in DOMAIN ProbeSetup :
            r # ProbeSetup[i] /\ (OPL3_mode \/ r - 256 # ProbeSetup[i])
       /\ Write(r, 255)
ProbeGenerate ==
  /\ ProbeProgrammed(Len(ProbeSetup))
  /\ GenerateUpTo(1, MaxProbeSamples)
NextProbe == ProbeSetupWrite \/ ProbeWrite \/ ProbeGenerate
SpecProbe == Init /\ [][NextProbe]_vars

\* Release into OFF: the first operator of channel 0 with attack rate 12 and
\* release rate 15, channel 0 keyed on and off, channel 1 keyed so that
\* samples are not muted.  The first attack step takes the volume to 447 and
\* the release adds 4 per sample, so it reaches MAX_ATT_INDEX within 16
\* samples: the sound device asks for two single samples, then for a block
\* of OffBlock samples, then for up to MaxOffFine single samples.  The chip
\* is reset after the second sample.
MaxOffFine == 1
OffBlock == 15
OffWrites == {<<96, 192>>, <<128, 15>>, <<176, 33>>, <<176, 1>>, <<177, 32>>}
OffWrite == \E w \in OffWrites : Write(w[1], w[2])
OffGenerate ==
  \E num \in {1, OffBlock} :
    /\ \/ num = 1 /\ lfo_pm_cnt < 2
       \/ num = OffBlock /\ lfo_pm_cnt = 2
       \/ /\ num = 1
          /\ lfo_pm_cnt >= 2 + OffBlock
          /\ lfo_pm_cnt < 2 + OffBlock + MaxOffFine
    /\ Generate(num)
OffReset ==
  /\ lfo_pm_cnt = 2
  /\ Reset
NextOff == OffWrite \/ OffGenerate \/ OffReset
SpecOff == Init /\ [][NextOff]_vars

\* A fused voice: extended mode is switched on, then channels 0 and 3 are
\* fused, and only then the operator and frequency registers are written:
\* vibrato and multiplier 1 on the first and the third operator of the voice,
\* multiplier 1 without vibrato on the fourth, a frequency code for channel 0
\* (keyed, so that samples are not muted) and another one for channel 3
MaxVoiceSamples == 2
VoiceWrites == {<<32, 65>>, <<40, 65>>, <<43, 1>>, <<176, 50>>, <<176, 51>>,
                <<179, 19>>, <<163, 1>>}
VoiceWrite ==
  \/ /\ ~OPL3_mode
     /\ Write(261, 1)
  \/ /\ OPL3_mode
     /\ channels[0].extended = 0
     /\ Write(260, 1)
  \/ /\ OPL3_mode
     /\ channels[0].extended # 0
     /\ \E w \in VoiceWrites : Write(w[1], w[2])
VoiceGenerate == GenerateUpTo(1, MaxVoiceSamples)
NextVoice == VoiceWrite \/ VoiceGenerate
SpecVoice == Init /\ [][NextVoice]_vars

\* The hard disks: the machine constructs an HD whose image opens or fails
\* to open, and destroys a live HD
HDConstruct ==
  \E h \in HDObjects, fileOpens \in BOOLEAN :
    /\ hds[h] = NoHD
    /\ hdInUse' = HD(hdInUse, fileOpens).hdInUse
    /\ hds' = [hds EXCEPT ![h] = HD(hdInUse, fileOpens).hd]
    /\ op' = [name |-> "HD", r |-> h, v |-> IF fileOpens THEN 1 ELSE 0,
              result |-> HD(hdInUse, fileOpens).thrown]
    /\ UNCHANGED chipvars
HDDestroy ==
  \E h \in HDObjects :
    /\ hds[h] # NoHD
    /\ hdInUse' = HD_Destructor(hdInUse, hds[h]).hdInUse
    /\ hds' = [hds EXCEPT ![h] = NoHD]
    /\ op' = [name |-> "~HD", r |-> h, v |-> 0,
              result |-> IF HD_Destructor(hdInUse, hds[h]).asserted
                         THEN "" ELSE "assert"]
    /\ UNCHANGED chipvars
NextHD == HDConstruct \/ HDDestroy
SpecHD == Init /\ [][NextHD]_vars
-----------------------------------------------------------------------------
(* The properties.                                                         *)

\* the operator s of channel c
Operator(c, s) == channels[c].slots[s]
\* the operator s of channel c in the next state
OperatorNext(c, s) == channels'[c].slots[s]
\* the host's last operation was writeReg(r, v) for some v
Wrote(r) == op.name = "write" /\ op.r = r
\* the six operators the rhythm section keys: both of channels 6, 7 and 8
RhythmChannels == {6, 7, 8}

\* C1: for every operator the envelope volume is within
\* MIN_ATT_INDEX .. MAX_ATT_INDEX in every reachable state, whatever the
\* envelope state (ATTACK, DECAY, SUSTAIN, RELEASE, OFF).
C1_VolumeInRange ==
  \A c \in Channels, s \in Slots :
    /\ Operator(c, s).volume >= MIN_ATT_INDEX
    /\ Operator(c, s).volume <= MAX_ATT_INDEX

\* an operator is decaying at more than 400 of the 511 attenuation steps
C1_Witness ==
  \E c \in Channels, s \in Slots :
    /\ Operator(c, s).state = EG_DECAY
    /\ Operator(c, s).volume > 400

\* C2: a step that gives a key source to an operator that is OFF and holds
\* none leaves it with phase counter 0 in state ATTACK; a step that adds a key
\* source to an operator that already holds one changes neither its phase
\* counter nor its envelope state.
C2_KeyOn ==
  [][\A c \in Channels, s \in Slots :
       /\ (Operator(c, s).key = 0 /\ Operator(c, s).state = EG_OFF
           /\ OperatorNext(c, s).key # 0)
          => (OperatorNext(c, s).Cnt = 0 /\ OperatorNext(c, s).state = EG_ATTACK)
       /\ (Operator(c, s).key # 0
           /\ OperatorNext(c, s).key # Operator(c, s).key
           /\ BitAnd(OperatorNext(c, s).key, Operator(c, s).key) = Operator(c, s).key)
          => (OperatorNext(c, s).Cnt = Operator(c, s).Cnt
              /\ OperatorNext(c, s).state = Operator(c, s).state)]_vars

\* a write to 0xBD has added the rhythm key to an operator of channel 6 that
\* the channel key holds, and its phase counter has kept its non-zero value
C2_Witness ==
  /\ Wrote(189)
  /\ \E s \in Slots : Operator(6, s).key = 3 /\ Operator(6, s).Cnt # 0

\* sample generation leaves the chip as it is, apart from the caller's buffers
GenerationStalled ==
  \A num \in 1 .. 2 : [generateChannels(Chip, num) EXCEPT !.bufs = bufs] = Chip

\* C3: an operator that holds no key source and has not reached OFF is moved
\* on by sample generation: it is never released, short of OFF, in a state
\* that generating samples leaves unchanged (from such a state continued
\* generation without writes never reaches OFF).
C3_ReleasedReachesOff ==
  \A c \in Channels, s \in Slots :
    (Operator(c, s).key = 0 /\ Operator(c, s).state = EG_RELEASE)
      => ~GenerationStalled

\* C4 as stated: after a write to 0xBD with the rhythm bit clear none of the
\* six rhythm operators holds any key source.
C4_NoKeySource ==
  (Wrote(189) /\ Bit(op.v, 5) = 0)
    => \A c \in RhythmChannels, s \in Slots : Operator(c, s).key = 0

\* C4 as amended: after a write to 0xBD with the rhythm bit clear none of the
\* six rhythm operators holds the rhythm key source (bit 1 of its key
\* bitmask); the key source of its channel's key-on bit is not released.
C4_NoRhythmKeySource ==
  (Wrote(189) /\ Bit(op.v, 5) = 0)
    => \A c \in RhythmChannels, s \in Slots : Bit(Operator(c, s).key, 1) = 0

\* a write to 0xBD with the rhythm bit clear has left an operator of channel 6
\* keyed by its channel while the cymbal operator, keyed by 0xBD alone before,
\* is released
C4_Witness ==
  /\ Wrote(189) /\ Bit(op.v, 5) = 0
  /\ Operator(6, SLOT1).key = 1
  /\ Operator(8, SLOT2).key = 0 /\ Operator(8, SLOT2).state = EG_RELEASE

\* the channels whose extended flag register 0x104 holds
FourOpChannels == FirstOfPair
\* channel c in the next state differs from it now in nothing but extended
SameButExtended(c) == [channels'[c] EXCEPT !.extended = 0] = [channels[c] EXCEPT !.extended = 0]
\* the synthesis state outside the channels is the same in the next state
UnchangedSynthesis ==
  UNCHANGED <<pan, eg_cnt, noise_rng, lfo_am_cnt, lfo_pm_cnt, LFO_AM, LFO_PM,
              lfo_am_depth, lfo_pm_depth_range, rhythm, nts, OPL3_mode>>

\* C5: a writeReg to 0x104 changes no operator of any channel (parameters,
\* key bitmask, envelope state, volume, phase, connection), no frequency data
\* of any channel, and no synthesis state outside the channels; of the
\* channels' fields only the extended flags of channels 0, 1, 2, 9, 10, 11
\* may differ after it.
C5_OnlyFusedFlags ==
  [][(op'.name = "write" /\ op'.r = 260)
       => /\ \A c \in Channels : SameButExtended(c)
          /\ \A c \in Channels \ FourOpChannels : channels'[c].extended = channels[c].extended
          /\ UnchangedSynthesis]_vars

\* a write to 0x104 in OPL3 mode has fused channels 0 and 3 while an operator
\* is keyed on
C5_Witness ==
  /\ Wrote(260) /\ OPL3_mode
  /\ channels[0].extended = 1
  /\ \E c \in Channels, s \in Slots : Operator(c, s).key # 0

\* C6: in the state a reset leaves, a further reset changes nothing.
C6_ResetIdempotent ==
  op.name = "reset" => reset(Chip) = Chip

\* a reset has run on a chip in OPL3 mode with channels 0 and 3 fused, after
\* samples were generated
C6_Witness ==
  /\ op.name = "reset"
  /\ OPL3_mode /\ channels[0].extended = 1
  /\ lfo_pm_cnt > 0

\* C7: after a reset each of the 36 operators is in state OFF at volume
\* MAX_ATT_INDEX and holds no key source.
C7_AllSilent ==
  op.name = "reset"
    => \A c \in Channels, s \in Slots :
         /\ Operator(c, s).state = EG_OFF
         /\ Operator(c, s).volume = MAX_ATT_INDEX
         /\ Operator(c, s).key = 0

\* a reset has run on a chip in OPL3 mode with a fused pair after samples
\* were generated from keyed operators, and every operator is muted
C7_Witness ==
  /\ op.name = "reset"
  /\ OPL3_mode /\ channels[0].extended = 1
  /\ checkMuteHelper(Chip)
  /\ lfo_am_cnt > 0

\* C8: after a reset every entry of reg[] is 0, OPL3_mode is off and the
\* extended flags of channels 0, 1, 2, 9, 10, 11 are clear.
C8_AllRegistersCleared ==
  op.name = "reset"
    => /\ \A r \in 0 .. 511 : reg[r] = 0
       /\ ~OPL3_mode
       /\ \A c \in FourOpChannels : channels[c].extended = 0

\* the entries of page 2 of reg[]
Page2 == 256 .. 511
\* the channels of page 2
Page2Channels == 9 .. 17

\* C9: a writeReg while OPL3_mode is off to an address of page 2 other than
\* 0x105 changes no entry of page 2 of reg[], no channel 9..17 and none of
\* their pan entries; a writeReg to 0x105 sets OPL3_mode to bit 0 of the value
\* in either mode.
C9_Page2Gated ==
  [][/\ (op'.name = "write" /\ op'.r \in Page2 \ {261} /\ ~OPL3_mode)
          => /\ \A r \in Page2 : reg'[r] = reg[r]
             /\ \A c \in Page2Channels : channels'[c] = channels[c]
             /\ \A i \in 36 .. 71 : pan'[i] = pan[i]
     /\ (op'.name = "write" /\ op'.r = 261)
          => (OPL3_mode' = (op'.v % 2 = 1))]_vars

\* a write to 0x1B0 while OPL3_mode is off has keyed channel 0 and not
\* channel 9
C9_Witness ==
  /\ Wrote(432) /\ ~OPL3_mode
  /\ Operator(0, SLOT1).key = 1
  /\ Operator(9, SLOT1).key = 0
  /\ reg[432] # 32

\* C10: readStatus returns status | status2 and changes nothing but status2,
\* which it clears, so that the byte a following read returns has bit 1 clear
\* and the same timer flags and IRQ bit; peekStatus returns the byte
\* readStatus would and changes nothing.
C10_StatusRead ==
  [][/\ (op'.name = "readStatus")
          => /\ op'.result = BitOr(status, status2)
             /\ status2' = 0
             /\ UNCHANGED <<status, statusMask, irq, timer1, timer2>>
             /\ UNCHANGED <<channels, reg, pan, OPL3_mode, rhythm, eg_cnt>>
             /\ peekStatus(Chip)' = status
     /\ (op'.name = "peekStatus")
          => /\ op'.result = readStatus(Chip).result
             /\ UNCHANGED chipvars]_vars

\* a readStatus has returned the OPL3 indicator with the flag of timer 1, and
\* has left the indicator clear and the IRQ line set
C10_Witness ==
  /\ op.name = "readStatus"
  /\ Bit(op.result, 1) = 1 /\ Bit(op.result, 6) = 1 /\ Bit(op.result, 7) = 1
  /\ status2 = 0 /\ status = op.result - 2 /\ irq
-----------------------------------------------------------------------------
(* Properties of the muted path, the envelope edges, the decoder's frame   *)
(* and the operator routing.                                               *)

\* the sample loop of generateChannels, entered whatever checkMuteHelper says
GenerateUnmuted(S, num) ==
  GenerateSamples([S EXCEPT !.bufs = [i \in Channels |-> EmptyBuffer]], num)

\* what decides every later sample of chip S: the envelope tick counter, the
\* LFO counters, the noise register and each operator's phase, volume and
\* envelope state
SynthState(S) ==
  << S.eg_cnt, S.lfo_am_cnt, S.lfo_pm_cnt, S.noise_rng,
     [c \in Channels |-> [s \in Slots |->
        << S.channels[c].slots[s].Cnt, S.channels[c].slots[s].volume,
           S.channels[c].slots[s].state >>]] >>

\* C11: whenever every operator is inaudible, generating a sample through
\* generateChannels leaves the envelope tick counter, the LFO counters, the
\* noise register and every operator's phase, volume and envelope state as
\* the sample loop would leave them.
C11_MutedPathSameState ==
  checkMuteHelper(Chip)
    => SynthState(generateChannels(Chip, 1)) = SynthState(GenerateUnmuted(Chip, 1))

\* the envelope edges the statement lists
ListedEdges ==
  { <<EG_ATTACK, EG_DECAY>>, <<EG_DECAY, EG_SUSTAIN>>, <<EG_SUSTAIN, EG_RELEASE>>,
    <<EG_RELEASE, EG_OFF>>, <<EG_OFF, EG_ATTACK>> }

\* the edges a key-off and a key-on take besides: release from ATTACK and
\* from DECAY, and a new attack of an operator that is still releasing
KeyEdges ==
  { <<EG_ATTACK, EG_RELEASE>>, <<EG_DECAY, EG_RELEASE>>, <<EG_RELEASE, EG_ATTACK>> }

\* a step of one register write or of one generated sample
SingleStep ==
  \/ op'.name = "write"
  \/ op'.name = "generate" /\ op'.v = 1

\* C12 as stated: a register write or a generated sample changes an
\* operator's envelope state only along ATTACK->DECAY, DECAY->SUSTAIN,
\* SUSTAIN->RELEASE, RELEASE->OFF and OFF->ATTACK.
C12_OnlyListedEdges ==
  [][SingleStep =>
       \A c \in Channels, s \in Slots :
          \/ OperatorNext(c, s).state = Operator(c, s).state
          \/ <<Operator(c, s).state, OperatorNext(c, s).state>> \in ListedEdges]_vars

\* C12 as amended: a register write or a generated sample changes an
\* operator's envelope state only along the listed edges and ATTACK->RELEASE,
\* DECAY->RELEASE and RELEASE->ATTACK; ATTACK is entered only from OFF or
\* RELEASE by a step that gives the first key source, RELEASE only by a step
\* that takes the last key source; and the next sample takes every operator
\* along ATTACK->DECAY, DECAY->SUSTAIN or RELEASE->OFF, or leaves its state.
C12_EnvelopeEdges ==
  [][/\ SingleStep =>
          \A c \in Channels, s \in Slots :
             LET old == Operator(c, s)
                 new == OperatorNext(c, s)
             IN \/ new.state = old.state
                \/ /\ <<old.state, new.state>> \in ListedEdges \cup KeyEdges
                   /\ new.state = EG_ATTACK => old.key = 0 /\ new.key # 0
                   /\ new.state = EG_RELEASE => old.key # 0 /\ new.key = 0
     /\ \A c \in Channels, s \in Slots :
          LET old == Operator(c, s)
              new == advanceEnvelopeGenerator(old, eg_cnt + 1)
          IN \/ new.state = old.state
             \/ <<old.state, new.state>> \in
                  { <<EG_ATTACK, EG_DECAY>>, <<EG_DECAY, EG_SUSTAIN>>,
                    <<EG_RELEASE, EG_OFF>> }]_vars

\* channel 0 was keyed off one sample after its key-on: its first operator,
\* whose attack had ended, went from DECAY to RELEASE at volume 0
C12_Witness ==
  /\ Wrote(176) /\ op.v = 0
  /\ lfo_pm_cnt = 1
  /\ Operator(0, SLOT1).state = EG_RELEASE
  /\ Operator(0, SLOT1).volume = 0
  /\ Operator(0, SLOT2).state = EG_RELEASE

\* the address writeRegForce receives when the host writes address r
Decoded(r) == IF ~OPL3_mode /\ r # 261 /\ r >= 256 THEN r - 256 ELSE r

\* the address of the frequency-high/key-on register of channel c
KeyOnRegister(c) == IF c < 9 THEN 176 + c ELSE 256 + 176 + (c - 9)

\* C13: while the first channel of a pair has its fused flag set, a write to
\* the key-on register of the pair's second channel changes the key bitmask
\* and the envelope state of no operator.
C13_SecondHalfNotKeyed ==
  [][\A first \in FirstOfPair :
       ( /\ channels[first].extended # 0
         /\ op'.name = "write"
         /\ Decoded(op'.r) = KeyOnRegister(first + 3) )
       => \A c \in Channels, s \in Slots :
            /\ OperatorNext(c, s).key = Operator(c, s).key
            /\ OperatorNext(c, s).state = Operator(c, s).state]_vars

\* channel c is evaluated by chan_calc on its own: it is not half of a fused
\* pair and not a rhythm channel
PlainChannel(c) ==
  /\ c \in FirstOfPair => channels[c].extended = 0
  /\ c \in SecondOfPair => channels[c - 3].extended = 0
  /\ c \in RhythmChannels => BitAnd(rhythm, 32) = 0

\* C14: for a channel that is not fused and not a rhythm channel, with
\* feedback 0 and connection bit 1, the accumulator of the channel after its
\* calculation is the output of operator 1 plus the output of operator 2,
\* both computed with phase modulation 0.
C14_DirectSum ==
  \A c \in Channels :
    ( /\ PlainChannel(c)
      /\ Operator(c, SLOT1).fb_shift = 0
      /\ Operator(c, SLOT1).CON )
    => CalcChannel([Chip EXCEPT !.chanout = [i \in Channels |-> 0]], c).chanout[c]
         = op_calc(Operator(c, SLOT1), Phase(Operator(c, SLOT1)), 0, LFO_AM)
           + op_calc(Operator(c, SLOT2), Phase(Operator(c, SLOT2)), 0, LFO_AM)

\* the connect pointers of channel c are the ones the connection table gives
\* for the fused flag of its pair and the connection bits
RoutedByTopology(c) ==
  CASE c \in FirstOfPair ->
         IF channels[c].extended # 0
         THEN Connect4op(Chip, c) = Chip
         ELSE Connect2op(Chip, c) = Chip
    [] c \in SecondOfPair ->
         IF channels[c - 3].extended # 0
         THEN Connect4op(Chip, c - 3) = Chip
         ELSE Connect2op(Chip, c) = Chip
    [] OTHER -> Connect2op(Chip, c) = Chip

\* C20: after a register write the connect pointers of every channel are the
\* ones the connection table gives for the channel's fused flag and
\* connection bits.
C20_RoutingFollowsFlags ==
  op.name = "write" => \A c \in Channels : RoutedByTopology(c)

\* C15: a write of 0x30 (rhythm enabled, bass drum keyed) to 0xBD in the state
\* a reset leaves puts both operators of channel 6 from OFF into ATTACK with
\* the rhythm key source, and leaves every other operator OFF with no key
\* source.
C15_BassDrumOnly ==
  [][( /\ op.name \in {"new", "reset"}
       /\ op'.name = "write" /\ op'.r = 189 /\ op'.v = 48 )
     => \A c \in Channels, s \in Slots :
          IF c = 6
          THEN /\ Operator(c, s).state = EG_OFF
               /\ OperatorNext(c, s).state = EG_ATTACK
               /\ OperatorNext(c, s).key = 2
          ELSE /\ OperatorNext(c, s).state = EG_OFF
               /\ OperatorNext(c, s).key = 0]_vars

\* 0x30 was written to 0xBD after the reset of a chip in OPL3 mode that had
\* generated a sample (the reset zeroed eg_cnt, not the LFO counter): the
\* bass drum operators attack and all others are OFF
C15_Witness ==
  /\ Wrote(189) /\ op.v = 48
  /\ OPL3_mode /\ lfo_pm_cnt > 0 /\ eg_cnt = 0
  /\ \A c \in Channels, s \in Slots :
       IF c = 6
       THEN Operator(c, s).state = EG_ATTACK /\ Operator(c, s).key = 2
       ELSE Operator(c, s).state = EG_OFF /\ Operator(c, s).key = 0

\* the addresses with no function: the offsets of an operator block with no
\* operator slot, the offsets of the frequency blocks above the ninth channel
\* other than 0xBD, the test register, and the control addresses other than
\* the timer, IRQ and note-select registers and 0x104, 0x105
UndefinedAddress(a) ==
  LET lo == a % 256
  IN \/ /\ lo \div 32 \in {1, 2, 3, 4, 7}
        /\ lo % 32 \in {6, 7, 14, 15} \cup (22 .. 31)
     \/ lo \in ((169 .. 175) \cup (185 .. 191)) \ {189}
     \/ lo = 1
     \/ lo \in {0} \cup (5 .. 7) \cup (9 .. 31) /\ a \notin {260, 261}

\* C16: a writeReg to an undefined address stores the byte in reg[] and
\* changes nothing else: no operator, channel, pan mask, counter, LFO, rhythm
\* or mode flag, timer, status or IRQ.
C16_UndefinedIgnored ==
  [][( op'.name = "write" /\ UndefinedAddress(Decoded(op'.r)) )
     => /\ reg' = [reg EXCEPT ![Decoded(op'.r)] = op'.v]
        /\ UNCHANGED << channels, pan, chanout, eg_cnt, noise_rng, lfo_am_cnt,
                        lfo_pm_cnt, LFO_AM, LFO_PM, lfo_am_depth,
                        lfo_pm_depth_range, rhythm, nts, OPL3_mode, status,
                        status2, statusMask, irq, timer1, timer2,
                        phase_modulation, phase_modulation2, bufs >>]_vars

\* in OPL3 mode 0xFF was written to 0x1BF, after writes to an operator offset
\* without operator and to the test register: the bytes are stored
C16_Witness ==
  /\ Wrote(447) /\ OPL3_mode
  /\ reg[447] = 255 /\ reg[38] = 255 /\ reg[1] = 255 /\ reg[231] = 7

\* C17: a writeReg that decodes to an address in 0xC9..0xDF of either page
\* changes no operator's feedback shift, connection bit or connect pointer and
\* no pan mask.
C17_OnlyNineConnect ==
  [][( op'.name = "write" /\ Decoded(op'.r) % 256 \in 201 .. 223 )
     => /\ pan' = pan
        /\ \A c \in Channels, s \in Slots :
             /\ OperatorNext(c, s).fb_shift = Operator(c, s).fb_shift
             /\ OperatorNext(c, s).CON = Operator(c, s).CON
             /\ OperatorNext(c, s).connect = Operator(c, s).connect]_vars

\* C18: a writeReg to 0x105 sets OPL3_mode to bit 0 of the value, sets the
\* status indicator status2 when it switches the mode on, stores the byte in
\* reg[0x105], and changes nothing else: no operator (waveform table and
\* number, connect pointers, key, envelope), no channel (fused flags), no pan
\* mask.
C18_OnlyModeFlag ==
  [][( op'.name = "write" /\ op'.r = 261 )
     => /\ OPL3_mode' = (op'.v % 2 = 1)
        /\ status2' = IF op'.v % 2 = 1 THEN 2 ELSE status2
        /\ reg' = [reg EXCEPT ![261] = op'.v]
        /\ UNCHANGED << channels, pan, chanout, eg_cnt, noise_rng, lfo_am_cnt,
                        lfo_pm_cnt, LFO_AM, LFO_PM, lfo_am_depth,
                        lfo_pm_depth_range, rhythm, nts, status, statusMask,
                        irq, timer1, timer2, phase_modulation,
                        phase_modulation2, bufs >>]_vars

\* OPL3 mode was switched off with waveform 5 selected on the first operator
\* of channel 0, channel 0 fused and its pan masks closed in OPL3 mode
C18_Witness ==
  /\ Wrote(261) /\ op.v = 0 /\ ~OPL3_mode
  /\ Operator(0, SLOT1).wavetable = 5
  /\ channels[0].extended = 1
  /\ pan[0] = 0

\* the operator (channel and slot) whose block offset is that of address a
OperatorAt(a) ==
  LET sl == slot_array(a % 32) + (IF a >= 256 THEN 18 ELSE 0)
  IN [c |-> sl \div 2, s |-> sl % 2]

\* C19: a writeReg of v that decodes to the waveform select of an operator
\* stores waveform number v & 7 and selects table v & 7 when OPL3_mode is on at
\* the write, table v & 3 when it is off.
C19_WaveformSelect ==
  [][( /\ op'.name = "write"
       /\ Decoded(op'.r) % 256 >= 224
       /\ slot_array(Decoded(op'.r) % 32) >= 0 )
     => LET o == OperatorAt(Decoded(op'.r))
        IN /\ OperatorNext(o.c, o.s).waveform_number = op'.v % 8
           /\ OperatorNext(o.c, o.s).wavetable =
                IF OPL3_mode THEN op'.v % 8 ELSE op'.v % 4]_vars

\* outside OPL3 mode 15 was written to 0xE0: number 7 is stored, table 3 is
\* selected, while the second operator of channel 9 keeps table 6 chosen
\* through page 2 in OPL3 mode
C19_Witness ==
  /\ Wrote(224) /\ op.v = 15 /\ ~OPL3_mode
  /\ Operator(0, SLOT1).waveform_number = 7
  /\ Operator(0, SLOT1).wavetable = 3
  /\ Operator(9, SLOT2).wavetable = 6

\* the channel whose connection register the address a decodes to
ConnectChannel(a) == (a % 16) + (IF a >= 256 THEN 9 ELSE 0)

\* the first channel of the pair channel c belongs to
PairOf(c) == IF c \in SecondOfPair THEN c - 3 ELSE c

\* the composite of the connection bits of the pair that starts at channel f
Composite(f) ==
  (IF Operator(f, SLOT1).CON THEN 2 ELSE 0)
    + (IF Operator(f + 3, SLOT1).CON THEN 1 ELSE 0)

\* what the pair that starts at channel f adds to the accumulators of its two
\* channels in one sample: chan_calc on f, then chan_calc_ext on f + 3
PairOutput(f) ==
  LET S == chan_calc_ext(
             chan_calc([Chip EXCEPT !.chanout = [i \in Channels |-> 0]], f),
             f + 3)
  IN S.chanout[f] + S.chanout[f + 3]

\* the output of the four operators of the pair that starts at channel f when
\* they are wired in topology t
TopologyOutput(f, t) ==
  LET s1 == Operator(f, SLOT1)
      s2 == Operator(f, SLOT2)
      s3 == Operator(f + 3, SLOT1)
      s4 == Operator(f + 3, SLOT2)
      o1 == op_calc(s1, Phase(s1), FeedbackInput(s1), LFO_AM)
      o2 == op_calc(s2, Phase(s2), IF t \in {0, 1} THEN o1 ELSE 0, LFO_AM)
      o3 == op_calc(s3, Phase(s3), IF t = 1 THEN 0 ELSE o2, LFO_AM)
      o4 == op_calc(s4, Phase(s4), IF t = 3 THEN 0 ELSE o3, LFO_AM)
  IN CASE t = 0 -> o4
       [] t = 1 -> o2 + o4
       [] t = 2 -> o1 + o4
       [] t = 3 -> o1 + o3 + o4

\* C21: after a writeReg in OPL3 mode to the connection register of either
\* half of a fused pair, the connect pointers of the four operators are those
\* of the topology numbered by the composite of the two connection bits
\* (0: 1->2->3->4, 1: (1->2) + (3->4), 2: 1 + (2->3->4), 3: 1 + (2->3) + 4),
\* whichever half was written, and the pair's contribution to a sample is the
\* output of that topology.
C21_FourTopologies ==
  ( /\ op.name = "write"
    /\ OPL3_mode
    /\ op.r % 256 \in 192 .. 223
    /\ op.r % 16 <= 8
    /\ ConnectChannel(op.r) \in FirstOfPair \cup SecondOfPair
    /\ channels[PairOf(ConnectChannel(op.r))].extended # 0 )
  => LET f == PairOf(ConnectChannel(op.r))
         t == Composite(f)
         out1 == ConnectChanout(f)
         out2 == ConnectChanout(f + 3)
     IN /\ << Operator(f, SLOT1).connect, Operator(f, SLOT2).connect,
              Operator(f + 3, SLOT1).connect, Operator(f + 3, SLOT2).connect >>
             = CASE t = 0 -> <<ConnectPM, ConnectPM2, ConnectPM, out2>>
                 [] t = 1 -> <<ConnectPM, out1, ConnectPM, out2>>
                 [] t = 2 -> <<out1, ConnectPM2, ConnectPM, out2>>
                 [] t = 3 -> <<out1, ConnectPM2, out2, out2>>
        /\ PairOutput(f) = TopologyOutput(f, t)

\* the second half's connection register was written with connection bit 1
\* while the first half's is 1, after two samples with the four operators
\* keyed at attack rate 15: the four topologies give four different outputs
C21_Witness ==
  /\ Wrote(195) /\ op.v = 49 /\ OPL3_mode
  /\ channels[0].extended # 0
  /\ Composite(0) = 3
  /\ lfo_pm_cnt = MaxTopoSamples
  /\ \A t, u \in 0 .. 3 : t # u => TopologyOutput(0, t) # TopologyOutput(0, u)

\* the channel whose frequency and key-on registers the address a decodes to
KeyChannelAt(a) == (a % 16) + (IF a >= 256 THEN 9 ELSE 0)

\* the key bitmask k after the channel key source is set (on) or cleared
ChannelKeyed(k, on) == IF on THEN BitOr(k, 1) ELSE BitAnd(k, ByteNot(1))

\* C22: a writeReg in OPL3 mode to the key-on register (0xB0..0xB8 of either
\* page) of channel c sets (bit 5 = 1) or clears (bit 5 = 0) the channel key
\* source of both operators of c, and also of both operators of c + 3 when c
\* is the first channel of a fused pair; when c is the second channel of a
\* fused pair it changes no key bitmask; the key bitmask of every other
\* operator is unchanged.
C22_KeyFanOut ==
  [][( /\ op'.name = "write"
       /\ OPL3_mode
       /\ op'.r % 256 \in 176 .. 184 )
     => LET c == KeyChannelAt(op'.r)
            on == Bit(op'.v, 5) = 1
            keyed == CASE c \in FirstOfPair /\ channels[c].extended # 0 -> {c, c + 3}
                       [] c \in SecondOfPair /\ channels[c - 3].extended # 0 -> {}
                       [] OTHER -> {c}
        IN \A d \in Channels, s \in Slots :
             OperatorNext(d, s).key =
               IF d \in keyed THEN ChannelKeyed(Operator(d, s).key, on)
               ELSE Operator(d, s).key]_vars

\* the fused pair 0/3 was keyed off through 0xB0 after it had been keyed on:
\* its four operators are in RELEASE with no key source
C22_Witness ==
  /\ Wrote(176) /\ op.v = 31 /\ OPL3_mode
  /\ channels[0].extended # 0
  /\ \A d \in {0, 3}, s \in Slots :
       Operator(d, s).key = 0 /\ Operator(d, s).state = EG_RELEASE

\* the channel that governs the operators of channel c: the first half for
\* the second half of a fused pair, else c itself
GoverningChannel(c) ==
  IF c \in SecondOfPair /\ channels[c - 3].extended # 0 THEN c - 3 ELSE c

\* the cached rates of operator s of channel c are the table entries for its
\* programmed rates plus the key-scale code ksr
RatesFor(c, s, ksr) ==
  LET slot == Operator(c, s)
  IN /\ IF slot.ar + ksr < 76
        THEN /\ slot.eg_sh_ar = eg_rate_shift(slot.ar + ksr)
             /\ slot.eg_sel_ar = eg_rate_select(slot.ar + ksr)
        ELSE /\ slot.eg_sh_ar = 0
             /\ slot.eg_sel_ar = 13 * RATE_STEPS
     /\ slot.eg_m_ar = Pow2(slot.eg_sh_ar) - 1
     /\ slot.eg_sh_dr = eg_rate_shift(slot.dr + ksr)
     /\ slot.eg_sel_dr = eg_rate_select(slot.dr + ksr)
     /\ slot.eg_m_dr = Pow2(slot.eg_sh_dr) - 1
     /\ slot.eg_sh_rr = eg_rate_shift(slot.rr + ksr)
     /\ slot.eg_sel_rr = eg_rate_select(slot.rr + ksr)
     /\ slot.eg_m_rr = Pow2(slot.eg_sh_rr) - 1

\* C23: every operator's cached attack, decay and release shift, selector and
\* mask are the rate-table entries for the programmed rate plus the key-scale
\* code, the key code of the governing channel shifted right by the
\* operator's key-scale-rate setting.
C23_RatesDerived ==
  \A c \in Channels, s \in Slots :
    RatesFor(c, s, Shr(channels[GoverningChannel(c)].kcode, Operator(c, s).KSR))

\* the key code of channel c as derived from its block_fnum and nts
KeyCodeOf(c) ==
  ((channels[c].block_fnum \div 1024) % 8) * 2
    + (IF nts THEN Bit(channels[c].block_fnum, 8)
       ELSE Bit(channels[c].block_fnum, 9))

\* C24: every channel's kcode has the block number in bits 3..1 and in bit 0
\* bit 8 of the frequency number when nts is set, bit 9 when it is clear.
C24_KeyCodeDerived ==
  \A c \in Channels : channels[c].kcode = KeyCodeOf(c)

\* the volume a percussive operator in SUSTAIN has after the envelope advance
\* at envelope counter cnt: the release rate increment, clamped at 511
SustainStep(slot, cnt) ==
  IF BitAnd(cnt, slot.eg_m_rr) = 0
  THEN LET v == slot.volume + EgStep(slot.eg_sel_rr, slot.eg_sh_rr, cnt)
       IN IF v >= MAX_ATT_INDEX THEN MAX_ATT_INDEX ELSE v
  ELSE slot.volume

\* C25: an operator that is in SUSTAIN before generateChannels is in SUSTAIN
\* after it; with eg_type set its volume is unchanged; with eg_type clear its
\* volume does not decrease and stays at or below 511, and over a single
\* sample that was not muted it is the volume plus the release rate increment
\* clamped at 511.
C25_SustainHolds ==
  [][op'.name = "generate"
     => \A c \in Channels, s \in Slots :
          Operator(c, s).state = EG_SUSTAIN
          => /\ OperatorNext(c, s).state = EG_SUSTAIN
             /\ Operator(c, s).eg_type
                  => OperatorNext(c, s).volume = Operator(c, s).volume
             /\ ~Operator(c, s).eg_type
                  => /\ OperatorNext(c, s).volume >= Operator(c, s).volume
                     /\ OperatorNext(c, s).volume <= MAX_ATT_INDEX
                     /\ (op'.v = 1 /\ eg_cnt' # eg_cnt)
                          => OperatorNext(c, s).volume
                               = SustainStep(Operator(c, s), eg_cnt')]_vars

\* a single sample was generated with the first operator of channel 0 keyed,
\* percussive and in SUSTAIN, and its volume has reached the clamp
C25_Witness ==
  /\ op.name = "generate" /\ op.v = 1
  /\ Operator(0, SLOT1).state = EG_SUSTAIN
  /\ Operator(0, SLOT1).key # 0
  /\ ~Operator(0, SLOT1).eg_type
  /\ Operator(0, SLOT1).volume = MAX_ATT_INDEX

\* the feedback value programmed into operator 1, from its shift
FeedbackValue(slot) == IF slot.fb_shift = 0 THEN 0 ELSE 9 - slot.fb_shift

\* the sum of the two stored raw outputs of operator 1 shifted right by
\* 9 - feedback value, or 0 for feedback value 0
SumOfLastTwo(slot) ==
  IF FeedbackValue(slot) = 0 THEN 0
  ELSE Shr(slot.op1_out[1] + slot.op1_out[2], 9 - FeedbackValue(slot))

\* C26: over one sample that is not muted, operator 1 of a channel evaluated
\* by chan_calc computes its output with phase modulation SumOfLastTwo of the
\* outputs stored before the sample, and the stored pair afterwards is
\* (previous output, new output).
C26_FeedbackOfLastTwo ==
  [][( op'.name = "generate" /\ op'.v = 1 /\ eg_cnt' # eg_cnt )
     => \A c \in Channels :
          PlainChannel(c)
          => LET slot == Operator(c, SLOT1)
             IN OperatorNext(c, SLOT1).op1_out
                  = << slot.op1_out[2],
                       op_calc(slot, Phase(slot), SumOfLastTwo(slot), LFO_AM') >>]_vars

\* the accumulator x of a channel as emitted through the pan mask m
Emitted(x, m) == adjust(IF m # 0 THEN x ELSE 0)

\* C27: a writeReg that decodes to the connection register of channel c sets
\* pan[4c .. 4c + 3] from bits 4..7 of the value when OPL3_mode is on and
\* enables all four when it is off, and changes no other pan mask; the pair
\* emitted for channel c by a sample that is not muted is the accumulator of
\* c, scaled by adjust, through mask A in the first place and mask B in the
\* second, so it is (0, 0) when A and B are off.
C27_PanMasks ==
  [][/\ ( /\ op'.name = "write"
          /\ Decoded(op'.r) % 256 \in 192 .. 223
          /\ Decoded(op'.r) % 16 <= 8 )
        => LET c == ConnectChannel(Decoded(op'.r))
           IN \A i \in DOMAIN pan :
                pan'[i] = IF i \in 4 * c .. 4 * c + 3
                          THEN (IF OPL3_mode
                                THEN (IF Bit(op'.v, 4 + (i - 4 * c)) = 1
                                      THEN PAN_ON ELSE 0)
                                ELSE PAN_ON)
                          ELSE pan[i]
     /\ ( op'.name = "generate" /\ op'.v = 1 /\ eg_cnt' # eg_cnt )
        => \A c \in Channels :
             /\ bufs'[c].samples
                  = << << Emitted(chanout'[c], pan[4 * c]),
                          Emitted(chanout'[c], pan[4 * c + 1]) >> >>
             /\ (pan[4 * c] = 0 /\ pan[4 * c + 1] = 0)
                  => bufs'[c].samples = << <<0, 0>> >>]_vars

\* in OPL3 mode with only output A of channel 0 enabled a sample was
\* generated in which the accumulator of channel 0 is not 0: the pair is
\* (accumulator << 2, 0)
C27_Witness ==
  /\ op.name = "generate" /\ OPL3_mode
  /\ reg[192] = 31
  /\ pan[0] # 0 /\ pan[1] = 0
  /\ chanout[0] # 0
  /\ bufs[0].samples = << <<4 * chanout[0], 0>> >>

\* C28: a writeReg of v that decodes to 0x04 with bit 7 of v set clears the
\* two timer flags of status and leaves statusMask and both timers as they
\* are; with bit 7 clear it sets statusMask to ~v & 0x60, keeps of the two
\* timer flags only those the new mask enables, and starts or stops timer 1
\* by bit 0 and timer 2 by bit 1 of v without changing their values.
C28_TimerControl ==
  [][( op'.name = "write" /\ Decoded(op'.r) = 4 )
     => IF Bit(op'.v, 7) = 1
        THEN /\ BitAnd(status', 96) = 0
             /\ statusMask' = statusMask
             /\ timer1' = timer1
             /\ timer2' = timer2
        ELSE /\ statusMask' = BitAnd(ByteNot(op'.v), 96)
             /\ BitAnd(status', 96) = BitAnd(BitAnd(status, 96), statusMask')
             /\ timer1' = [timer1 EXCEPT !.start = Bit(op'.v, 0) = 1]
             /\ timer2' = [timer2 EXCEPT !.start = Bit(op'.v, 1) = 1]]_vars

\* 0x04 was written with the timer 1 mask bit after timer 2 had expired: the
\* flag of timer 2 is kept and both timers are stopped
C28_Witness ==
  /\ Wrote(4) /\ op.v = 64
  /\ statusMask = 32
  /\ status = 160
  /\ ~timer1.start /\ ~timer2.start

\* the chip S after the channel calculation of one sample, started from
\* cleared accumulators
Calculated(S) == CalcChannels([S EXCEPT !.chanout = [i \in Channels |-> 0]])

\* the pairs a single sample emits for the 18 channels from the chip S
PairsOf(S) == [c \in Channels |-> << SamplePair(S, c) >>]

\* C29 as stated: the pairs emitted by a single sample that is not muted are
\* those calculated from the operators after advance() has stepped their
\* phase and envelope.
C29_AdvanceThenEvaluate ==
  [][( op'.name = "generate" /\ op'.v = 1 /\ eg_cnt' # eg_cnt )
     => [c \in Channels |-> bufs'[c].samples]
          = PairsOf(Calculated(advance(advance_lfo(Chip))))]_vars

\* C29 as the code has it: the pairs emitted by a single sample that is not
\* muted are those calculated from the operators as they are before the
\* sample, and the phase and envelope of every operator are stepped after
\* that calculation; the first sample after a key-on reflects no step.
C29_EvaluateThenAdvance ==
  [][( op'.name = "generate" /\ op'.v = 1 /\ eg_cnt' # eg_cnt )
     => /\ [c \in Channels |-> bufs'[c].samples]
             = PairsOf(Calculated(advance_lfo(Chip)))
        /\ channels' = advance(Calculated(advance_lfo(Chip))).channels]_vars

\* the first sample after channel 0 was keyed with attack rate 15 on its
\* first operator, routed to output A: the pair is silent although the
\* envelope step that followed took the operator to no attenuation
C29_Witness ==
  /\ op.name = "generate" /\ lfo_pm_cnt = 1
  /\ Operator(0, SLOT1).key # 0
  /\ Operator(0, SLOT1).CON
  /\ Operator(0, SLOT1).volume = MIN_ATT_INDEX
  /\ pan[0] # 0
  /\ bufs[0].samples = << <<0, 0>> >>

\* the index into lfo_am_table that the AM counter cnt selects
AmIndex(cnt) == cnt \div 64

\* C30: over one sample that is not muted the AM counter advances by one and
\* wraps to 0 at 210 * 64 = 13440, so the table index stays in 0 .. 209 and
\* moves to the next entry (from 209 to 0) exactly every 64th sample; LFO_AM is
\* the table entry when lfo_am_depth is set and the entry divided by 4 when it
\* is not; the vibrato counter advances by one and LFO_PM is its step
\* (counter / 1024) mod 8 or-ed with lfo_pm_depth_range, which is 0 or 8, so
\* LFO_PM lies in 0 .. 15.
C30_LfoSteps ==
  [][( op'.name = "generate" /\ op'.v = 1 /\ eg_cnt' # eg_cnt )
     => /\ lfo_am_cnt' = (lfo_am_cnt + 1) % 13440
        /\ AmIndex(lfo_am_cnt') \in 0 .. 209
        /\ AmIndex(lfo_am_cnt') = IF lfo_am_cnt' % 64 = 0
                                  THEN (AmIndex(lfo_am_cnt) + 1) % 210
                                  ELSE AmIndex(lfo_am_cnt)
        /\ LFO_AM' = IF lfo_am_depth
                     THEN lfo_am_table(AmIndex(lfo_am_cnt'))
                     ELSE lfo_am_table(AmIndex(lfo_am_cnt')) \div 4
        /\ lfo_pm_cnt' = lfo_pm_cnt + 1
        /\ lfo_pm_depth_range \in {0, 8}
        /\ LFO_PM' = BitOr((lfo_pm_cnt' \div 1024) % 8, lfo_pm_depth_range)
        /\ LFO_PM' \in 0 .. 15]_vars

\* the sample after the 13440th: the AM counter has wrapped and is in the
\* first table entry again, the vibrato is in step 13 mod 8 = 5 with the depth
\* range bit set
C30_Witness ==
  /\ op.name = "generate"
  /\ lfo_pm_cnt = 13441
  /\ lfo_am_cnt = 1
  /\ lfo_pm_depth_range = 8
  /\ LFO_PM = 13


\* the noise register after n steps from the value reset() gives it
RECURSIVE NoiseAfter(_)
NoiseAfter(n) == IF n = 0 THEN 1 ELSE NoiseStep(NoiseAfter(n - 1))

\* the noise register holds a non-zero value of 23 bits
NoiseInRange ==
  /\ noise_rng > 0
  /\ noise_rng < Pow2(23)

\* C31: the noise shift register is greater than 0 and less than 2^23 in
\* every state; a single sample of the full path steps it exactly once (an
\* odd value is xor-ed with the taps and halved, an even value is halved), and
\* a sample of the muted path and a register write leave it alone; reset()
\* sets it to 1.
C31_NoiseRegister ==
  /\ []NoiseInRange
  /\ [][/\ ( op'.name = "generate" /\ op'.v = 1 /\ eg_cnt' # eg_cnt )
           => /\ eg_cnt' = eg_cnt + 1
              /\ noise_rng' = IF noise_rng % 2 = 1
                              THEN BitXor(noise_rng, 8389378) \div 2
                              ELSE noise_rng \div 2
              /\ noise_rng' # noise_rng
        /\ ( op'.name = "generate" /\ eg_cnt' = eg_cnt ) => noise_rng' = noise_rng
        /\ op'.name = "write" => noise_rng' = noise_rng
        /\ op'.name = "reset" => noise_rng' = 1]_vars

\* the register after 100 samples of the full path since the last reset
C31_Witness ==
  /\ op.name = "generate"
  /\ eg_cnt = 100
  /\ noise_rng = NoiseAfter(100)
  /\ noise_rng # 1

\* C32: an operator in ATTACK whose attack rate code is that of rate 15 has
\* volume MIN_ATT_INDEX and state DECAY after the next sample's envelope
\* advance, whatever its volume, its key-scale code and the envelope counter.
C32_AttackRate15 ==
  [][( op'.name = "generate" /\ op'.v = 1 )
     => \A c \in Channels, s \in Slots :
          ( Operator(c, s).state = EG_ATTACK /\ Operator(c, s).ar = RateCode(15) )
          => /\ eg_cnt' = eg_cnt + 1
             /\ OperatorNext(c, s).volume = MIN_ATT_INDEX
             /\ OperatorNext(c, s).state = EG_DECAY]_vars

\* the first operator of channel 0 after the one sample that followed its
\* key-on at block 7 with key scaling of the rates (key-scale code 15): its
\* phase has made one step since the key-on, its attack is over
C32_Witness ==
  /\ op.name = "generate"
  /\ Operator(0, SLOT1).ar = RateCode(15)
  /\ Operator(0, SLOT1).ksr = 15
  /\ Operator(0, SLOT1).Incr # 0
  /\ Operator(0, SLOT1).Cnt = Operator(0, SLOT1).Incr
  /\ Operator(0, SLOT1).state = EG_DECAY
  /\ Operator(0, SLOT1).volume = MIN_ATT_INDEX
  /\ eg_cnt > 1

\* the channels whose members the decode of a write to address a reads or
\* writes: the channel of the operator or channel register, the other half
\* of its pair where the decode reaches for it, the three rhythm channels for
\* 0xBD, the six first halves for 0x104
ChannelsAccessed(a) ==
  LET lo == a % 256
      ch_offset == IF a >= 256 THEN 9 ELSE 0
      slot == slot_array(lo % 32)
      OfSlot == IF slot < 0 THEN {} ELSE {(slot + ch_offset * 2) \div 2}
      OfChannel == IF lo % 16 > 8 THEN {} ELSE {(lo % 16) + ch_offset}
      Halves(cs) == cs \cup {c + 3 : c \in cs \cap FirstOfPair}
                       \cup {c - 3 : c \in cs \cap SecondOfPair}
  IN CASE a = 260 -> FirstOfPair
       [] a \in {257, 261} -> {}
       [] lo \div 32 = 0 -> {}
       [] lo \div 32 \in {1, 2} -> Halves(OfSlot)
       [] lo \div 32 \in {3, 4, 7} -> OfSlot
       [] lo = 189 -> IF ch_offset # 0 THEN {} ELSE {6, 7, 8}
       [] OTHER -> Halves(OfChannel)

\* the indices at which one operator reads the rate tables, and at which it
\* reads eg_inc for any value of the envelope counter
RateIndices(slot) == {slot.ar + slot.ksr, slot.dr + slot.ksr, slot.rr + slot.ksr}
IncIndices(slot) ==
  {sel + step : sel \in {slot.eg_sel_ar, slot.eg_sel_dr, slot.eg_sel_rr},
                step \in 0 .. 7}

\* the indices at which channel c reads lfo_pm_table: with the current
\* LFO_PM, and with the one of any step of the vibrato counter
PmIndices(c) ==
  {pm + 16 * (BitAnd(channels[c].block_fnum, 896) \div 128) :
     pm \in {LFO_PM} \cup {BitOr(step, lfo_pm_depth_range) : step \in 0 .. 7}}

C34_KeyedIffSounding ==
  /\ [](\A c \in Channels, s \in Slots :
          Operator(c, s).key # 0
            <=> Operator(c, s).state \in {EG_ATTACK, EG_DECAY, EG_SUSTAIN})
  /\ [][\A c \in Channels, s \in Slots :
          ( OperatorNext(c, s).state = EG_RELEASE
            /\ Operator(c, s).state # EG_RELEASE )
          => /\ op'.name = "write"
             /\ Operator(c, s).key # 0
             /\ OperatorNext(c, s).key = 0]_vars

\* the key-off of channel 6 through 0xB6, some samples after a reset: the
\* first operator of channel 6 held only the channel's key source and is in
\* RELEASE, the first operator of channel 7 is still held by the rhythm
\* section and sounds
C34_Witness ==
  /\ op.name = "write" /\ op.r = 182 /\ op.v = 1
  /\ eg_cnt < lfo_pm_cnt
  /\ Operator(6, SLOT1).key = 0
  /\ Operator(6, SLOT1).state = EG_RELEASE
  /\ Operator(7, SLOT1).key = 2
  /\ Operator(7, SLOT1).state \in {EG_ATTACK, EG_DECAY, EG_SUSTAIN}

\* C35: in every state the interrupt line is asserted exactly when bit 7 of
\* the status is set, and exactly when a timer flag is set that the mask
\* enables (status AND statusMask AND 0x60 is not 0); and the expiry of a
\* timer whose flag the mask disables leaves the interrupt line as it was.
C35_IrqAgrees ==
  /\ []( /\ irq <=> BitAnd(status, 128) # 0
         /\ irq <=> BitAnd(BitAnd(status, statusMask), 96) # 0 )
  /\ [][( op'.name = "callback" /\ BitAnd(statusMask, op'.v) = 0 )
          => /\ irq' = irq
             /\ BitAnd(status', op'.v) # 0]_vars

\* timer 1 expired while its flag was disabled and no other flag was set:
\* the flag is in the status, the summary bit and the interrupt are not
C35_Witness ==
  /\ op.name = "callback" /\ op.v = STATUS_T1
  /\ BitAnd(statusMask, STATUS_T1) = 0
  /\ status = STATUS_T1
  /\ ~irq

\* C36: in every state an operator in state OFF has volume MAX_ATT_INDEX; a
\* step takes an operator into OFF only if it is a reset, or a sample in
\* which the operator's release reached MAX_ATT_INDEX; and a register write
\* leaves the volume and the state of an operator that is OFF as they are,
\* unless it keys the operator on, which leaves the volume.
C36_OffIsSilent ==
  /\ [](\A c \in Channels, s \in Slots :
          Operator(c, s).state = EG_OFF => Operator(c, s).volume = MAX_ATT_INDEX)
  /\ [][\A c \in Channels, s \in Slots :
          /\ ( OperatorNext(c, s).state = EG_OFF /\ Operator(c, s).state # EG_OFF )
             => \/ op'.name = "reset"
                \/ /\ op'.name = "generate"
                   /\ Operator(c, s).state = EG_RELEASE
                   /\ OperatorNext(c, s).volume = MAX_ATT_INDEX
          /\ ( op'.name = "write" /\ Operator(c, s).state = EG_OFF )
             => /\ OperatorNext(c, s).volume = Operator(c, s).volume
                /\ OperatorNext(c, s).state \in {EG_OFF, EG_ATTACK}]_vars

\* the block of samples has been generated, there was no reset since the
\* first sample, and the first operator of channel 0 was keyed on before the
\* first sample, has moved its phase in every sample since and is OFF: its
\* release ran into MAX_ATT_INDEX during the block
C36_Witness ==
  /\ op.name = "generate" /\ op.v = OffBlock
  /\ eg_cnt = lfo_pm_cnt
  /\ Operator(0, SLOT1).Incr # 0
  /\ Operator(0, SLOT1).Cnt = eg_cnt * Operator(0, SLOT1).Incr
  /\ Operator(0, SLOT1).ar = RateCode(12)
  /\ Operator(0, SLOT1).rr = RateCode(15)
  /\ Operator(0, SLOT1).key = 0
  /\ Operator(0, SLOT1).state = EG_OFF
  /\ Operator(0, SLOT1).volume = MAX_ATT_INDEX

\* every operator's attenuation is beyond the level table, and the sample
\* loop would compute 0 for every operator, leave 0 in every channel's
\* accumulator and emit a pair of zeros for every channel
FullPathSilent ==
  LET L == advance_lfo(Chip)
      F == GenerateUnmuted(Chip, 1)
  IN /\ \A c \in Channels, s \in Slots :
          /\ (Operator(c, s).TLL + Operator(c, s).volume) * 16 >= TL_TAB_LEN
          /\ \A pm \in {0, FeedbackInput(Operator(c, s))} :
               op_calc(Operator(c, s), Phase(Operator(c, s)), pm, L.LFO_AM) = 0
     /\ \A c \in Channels :
          /\ F.chanout[c] = 0
          /\ F.channels[c].slots[SLOT1].op1_out[2] = 0
          /\ F.bufs[c].samples = << <<0, 0>> >>

\* C37 as stated: whenever checkMuteHelper holds (every operator OFF, or in
\* RELEASE with TLL + volume at or above ENV_QUIET), every operator's
\* attenuation shifted left by 4 is at least TL_TAB_LEN, and every operator
\* output, every feedback value and every channel accumulator of the sample
\* loop is 0.
C37_MutedAllZero ==
  checkMuteHelper(Chip)
    => /\ FullPathSilent
       /\ \A c \in Channels : FeedbackInput(Operator(c, SLOT1)) = 0

\* C37 without the feedback values: whenever checkMuteHelper holds, every
\* operator's attenuation shifted left by 4 is at least TL_TAB_LEN, and every
\* operator output and every channel accumulator of the sample loop is 0, so
\* every channel would emit zeros.
C37_MutedEmitsZero ==
  checkMuteHelper(Chip) => FullPathSilent

\* the chip is muted straight after the first operator of channel 0 sounded:
\* the operator is in RELEASE at volume 0 under a total level beyond
\* ENV_QUIET, and the feedback the sample loop would form from its stored
\* output is not 0
C37_Witness ==
  /\ checkMuteHelper(Chip)
  /\ Operator(0, SLOT1).state = EG_RELEASE
  /\ Operator(0, SLOT1).volume = MIN_ATT_INDEX
  /\ Operator(0, SLOT1).TLL >= ENV_QUIET
  /\ FeedbackInput(Operator(0, SLOT1)) # 0

\* the phase increment of one sample taken from the block/frequency code of
\* the channel first: the stored increment fc * mul, or with vibrato and a
\* non-zero table entry the increment of the shifted code
IncrementFrom(first, slot, pm) ==
  LET fnum_lfo == (first.block_fnum \div 128) % 8
      offset == lfo_pm_table(pm + 16 * fnum_lfo)
  IN IF slot.vib /\ offset # 0
     THEN fnumToIncrement(first.block_fnum + offset) * slot.mul
     ELSE first.fc * slot.mul

\* C38: in the voice fused from channels 0 and 3 (extended mode on, fused
\* flag set before the frequency and operator registers are written), every
\* sample the sample loop computes advances the phase of each of the four
\* operators by the increment of channel 0's block/frequency code, with
\* vibrato disabled and with vibrato enabled for the operator; the code of
\* channel 3 has no influence.
C38_FusedPhaseFromFirstHalf ==
  [][( /\ op'.name = "generate" /\ op'.v = 1 /\ eg_cnt' # eg_cnt
       /\ OPL3_mode /\ channels[0].extended # 0 )
     => \A c \in {0, 3} : \A s \in Slots :
          OperatorNext(c, s).Cnt
            = FixedPointAdd(Operator(c, s).Cnt,
                            IncrementFrom(channels[0], Operator(c, s), LFO_PM'))]_vars

\* the host's last operation was a write to page 2, other than 0x105, made
\* while extended mode was off
Page2WriteInOPL2 ==
  /\ op'.name = "write"
  /\ op'.r \in 256 .. 511
  /\ op'.r # 261
  /\ ~OPL3_mode

\* C39 as stated: while extended mode is off, writeReg(a, v) with a in
\* 256 .. 511 other than 0x105 leaves the whole chip as writeReg(a - 256, v)
\* would, and readReg(a) afterwards does not return v.
C39_AliasAndReadDiffers ==
  [][Page2WriteInOPL2
     => /\ Install(writeReg(Chip, op'.r - 256, op'.v))
        /\ readReg([reg |-> reg'], op'.r) # op'.v]_vars

\* C39 with the read as the code gives it: while extended mode is off,
\* writeReg(a, v) with a in 256 .. 511 other than 0x105 leaves the whole chip
\* as writeReg(a - 256, v) would: v is stored in slot a - 256 and decoded as
\* the register of page 1, and readReg(a) afterwards returns what it returned
\* before the write, which is v only if slot a held v already.
C39_AliasAndReadUnchanged ==
  [][Page2WriteInOPL2
     => /\ Install(writeReg(Chip, op'.r - 256, op'.v))
        /\ reg'[op'.r - 256] = op'.v
        /\ readReg([reg |-> reg'], op'.r) = readReg(Chip, op'.r)]_vars

\* 0x20 was written to 0x1BD outside extended mode: the rhythm flag of
\* register 0xBD is set, slot 0xBD of the register file holds 0x20 and slot
\* 0x1BD does not
C39_Witness ==
  /\ op.name = "write" /\ op.r = 445 /\ op.v = 32
  /\ ~OPL3_mode
  /\ rhythm # 0
  /\ reg[189] = 32
  /\ reg[445] # 32

\* the id in the name of the object hd
IdOf(hd) == hd.name[3] - LetterA
\* the live HD objects
LiveHDs == {h \in HDObjects : hds[h] # NoHD}
\* the lowest id whose flag is clear in the table inUse, MAX_HD if there is none
LowestClear(inUse) ==
  IF \A id \in HDIds : inUse[id] THEN MAX_HD
  ELSE CHOOSE id \in HDIds : ~inUse[id] /\ \A j \in 0 .. id - 1 : inUse[j]

\* the in-use table is the set of the ids of the live HDs, which are named
\* "hd" and a letter, with pairwise distinct ids below MAX_HD
TableIsLiveSet ==
  /\ \A h \in LiveHDs :
       /\ IdOf(hds[h]) \in HDIds
       /\ hds[h].name = <<"h", "d", LetterA + IdOf(hds[h])>>
  /\ \A h1, h2 \in LiveHDs : h1 # h2 => IdOf(hds[h1]) # IdOf(hds[h2])
  /\ \A id \in HDIds : hdInUse[id] <=> \E h \in LiveHDs : IdOf(hds[h]) = id

\* C40: the in-use table is the set of the live HDs' ids in every state; a
\* construction that succeeds takes the lowest id whose flag is clear and sets
\* that flag only; a construction with every flag set, or whose image does not
\* open, throws and leaves the table and the live objects as they were; a
\* destruction finds its flag set and clears that flag only.
C40_TableIsLiveSet ==
  /\ []TableIsLiveSet
  /\ [][/\ op'.name = "HD"
          => IF LowestClear(hdInUse) = MAX_HD \/ op'.v = 0
             THEN /\ op'.result # ""
                  /\ UNCHANGED hdvars
             ELSE /\ op'.result = ""
                  /\ IdOf(hds'[op'.r]) = LowestClear(hdInUse)
                  /\ hdInUse' = [hdInUse EXCEPT ![LowestClear(hdInUse)] = TRUE]
                  /\ \A h \in HDObjects \ {op'.r} : hds'[h] = hds[h]
        /\ op'.name = "~HD"
          => /\ op'.result = ""
             /\ hdInUse[IdOf(hds[op'.r])]
             /\ hdInUse' = [hdInUse EXCEPT ![IdOf(hds[op'.r])] = FALSE]
             /\ hds' = [hds EXCEPT ![op'.r] = NoHD]]_vars

\* an HD was constructed with id 0 while the HD with id 1 is live: id 0 was
\* in use when id 1 was taken, was released by a destruction and is reused
C40_Witness ==
  /\ op.name = "HD"
  /\ op.result = ""
  /\ IdOf(hds[op.r]) = 0
  /\ \E h \in LiveHDs : IdOf(hds[h]) = 1
  /\ hdInUse = [id \in HDIds |-> id \in {0, 1}]
=============================================================================
